---- MODULE Spec2Model ----
(***************************************************************************)
(* Model of core.io-data-manager (lib/manager.js): the Manager's import    *)
(* pipeline, its reconciliation pass (_importModel / iterate), the error   *)
(* aggregator (addErrors / consumeErrorsFor), the in-flight marks and the  *)
(* per-record helpers (_makeDefaultAttributes, _getIdentityFields,         *)
(* buildCriteria, _castField, _emptyCriteria, _itemTriggersBatchDelay).    *)
(*                                                                         *)
(* JavaScript values are encoded as strings: "undefined", "null", the      *)
(* numbers "0" "1", the booleans "false" "true" and quoted strings such as *)
(* "''" (the empty string) and "'1'".  An absent property is "undefined".  *)
(***************************************************************************)
EXTENDS Integers, Sequences, FiniteSets, TLC

\* ------------------------------------------------------------------ bounds
\* length of the sequence handed to a single invocation of _importModel
MaxItems == 3
\* number of _importModel invocations of a run with several passes
MaxPasses == 2
\* total number of elements handed to _importModel over such a run
MaxPassItems == 2
\* number of times _makeDefaultAttributes is applied to one record
MaxHydrations == 2

\* --------------------------------------------------------------- JS values
Undef == "undefined"
Null == "null"
EmptyStr == "''"

\* the values with a falsy truth value (what `!v` accepts)
Falsy(v) == v \in {Undef, Null, "0", EmptyStr, "false"}

\* '' + value
ToStr(v) ==
    CASE v = "0" -> "'0'"
      [] v = "1" -> "'1'"
      [] v = "false" -> "'false'"
      [] v = "true" -> "'true'"
      [] v = Null -> "'null'"
      [] v = Undef -> "'undefined'"
      [] OTHER -> v

Fields == {"id", "uuid", "name"}

\* a record of the data model: field name -> value, "undefined" when absent
NoFields == [f \in Fields |-> Undef]

\* elements of an item sequence: a record object, or null
Obj(r) == [tag |-> "object", rec |-> r]
JsNull == [tag |-> "null", rec |-> NoFields]

\* `!record` of iterate
FalsyItem(it) == it.tag = "null"

\* ------------------------------------------------------------------ schema
NoDefault == [kind |-> "none", value |-> Undef]
Literal(v) == [kind |-> "literal", value |-> v]
Producer == [kind |-> "function", value |-> Undef]

Attr(n, t, u, d) == [name |-> n, type |-> t, unique |-> u, defaultsTo |-> d]

\* Model.attributes.hasOwnProperty(field)
HasAttribute(schema, field) == \E i \in 1..Len(schema) : schema[i].name = field

AttributeOf(schema, field) ==
    schema[CHOOSE i \in 1..Len(schema) : schema[i].name = field]

\* `!definition.defaultsTo`
HasNoDefault(d) ==
    \/ d.kind = "none"
    \/ d.kind = "literal" /\ Falsy(d.value)

\* _get(defaultsTo); produced is what the producer function returns
Get(d, produced) == IF d.kind = "function" THEN produced ELSE d.value

\* variant: the default is assigned whether or not the record has a value
MakeDefaultAttributes_Overwrite(schema, record, produced) ==
    [f \in Fields |->
        IF ~HasAttribute(schema, f) THEN record[f]
        ELSE IF HasNoDefault(AttributeOf(schema, f).defaultsTo) THEN record[f]
        ELSE Get(AttributeOf(schema, f).defaultsTo, produced[f])]

\* _makeDefaultAttributes(Model, record); produced[f] is the value the
\* producer of field f returns when it is invoked
MakeDefaultAttributes(schema, record, produced) ==
    [f \in Fields |->
        IF ~HasAttribute(schema, f) THEN record[f]
        ELSE IF record[f] # Undef THEN record[f]
        ELSE IF HasNoDefault(AttributeOf(schema, f).defaultsTo) THEN record[f]
        ELSE Get(AttributeOf(schema, f).defaultsTo, produced[f])]

RECURSIVE AppendUnique(_, _, _)
AppendUnique(schema, i, identityFields) ==
    IF i > Len(schema) THEN identityFields
    ELSE IF schema[i].unique
            /\ ~\E j \in 1..Len(identityFields) : identityFields[j] = schema[i].name
         THEN AppendUnique(schema, i + 1, Append(identityFields, schema[i].name))
         ELSE AppendUnique(schema, i + 1, identityFields)

\* variant: every unique field is appended, present already or not
GetIdentityFields_AppendAll(schema, identityFields) ==
    identityFields \o AppendUnique(schema, 1, <<>>)

\* _getIdentityFields(Model, record, identityFields)
GetIdentityFields(schema, identityFields) == AppendUnique(schema, 1, identityFields)

\* _castField(Model, record, field): the value after casting
CastField(schema, record, field) ==
    IF record[field] \in {Null, Undef} THEN record[field]
    ELSE IF AttributeOf(schema, field).type \in {"text", "string"}
         THEN ToStr(record[field])
         ELSE record[field]

\* variant: only undefined is empty
IsEmpty_UndefinedOnly(v) == v = Undef

\* isEmpty of buildCriteria
IsEmpty(v) == v \in {Undef, Null, EmptyStr}

\* criteria values: undefined, {field: value}, {or: [...]}
NoCriteria == [kind |-> "undefined", clauses |-> <<>>]
Equality(f, v) == [kind |-> "equality", clauses |-> <<[field |-> f, value |-> v]>>]
Disjunction(cs) == [kind |-> "or", clauses |-> cs]

RECURSIVE OrClauses(_, _, _, _)
OrClauses(schema, record, identityFields, i) ==
    IF i > Len(identityFields) THEN <<>>
    ELSE LET f == identityFields[i]
             v == CastField(schema, record, f)
             rest == OrClauses(schema, record, identityFields, i + 1)
         IN  IF IsEmpty(v) THEN rest ELSE <<[field |-> f, value |-> v]>> \o rest

\* variant: the cast value is not written back
CastRecord_NoWriteBack(schema, record, fieldSet) == record

\* the record after the write-backs of _castField for the given fields
CastRecord(schema, record, fieldSet) ==
    [f \in Fields |->
        IF f \in fieldSet /\ HasAttribute(schema, f)
        THEN CastField(schema, record, f) ELSE record[f]]

\* variant: a field absent from the schema is an error only when the record
\* has a value for it
BuildCriteria_ChecksValueFirst(schema, record, identityFields) ==
    LET known == SelectSeq(identityFields, LAMBDA f : HasAttribute(schema, f))
        clauses == OrClauses(schema, record, known, 1)
    IN  IF Len(identityFields) = 0
        THEN [threw |-> TRUE, message |-> "need identity fields",
              criteria |-> NoCriteria, record |-> record]
        ELSE IF \E i \in 1..Len(identityFields) :
                    /\ ~HasAttribute(schema, identityFields[i])
                    /\ ~IsEmpty(record[identityFields[i]])
        THEN [threw |-> TRUE, message |-> "model has no field",
              criteria |-> NoCriteria, record |-> record]
        ELSE [threw |-> FALSE, message |-> "",
              criteria |-> IF Len(identityFields) > 1 THEN Disjunction(clauses)
                           ELSE IF clauses = <<>> THEN NoCriteria
                           ELSE Equality(clauses[1].field, clauses[1].value),
              record |-> CastRecord(schema, record,
                            {identityFields[i] : i \in 1..Len(identityFields)})]

\* buildCriteria(Model, record, identityFields):
\* threw, the criteria returned and the record as mutated by the casts;
\* a missing identityFields argument takes the default []
BuildCriteria(schema, record, identityFields) ==
    IF Len(identityFields) = 0
    THEN [threw |-> TRUE, message |-> "need identity fields",
          criteria |-> NoCriteria, record |-> record]
    ELSE IF Len(identityFields) = 1
    THEN LET f == identityFields[1] IN
         IF ~HasAttribute(schema, f)
         THEN [threw |-> TRUE, message |-> "model has no field",
               criteria |-> NoCriteria, record |-> record]
         ELSE LET v == CastField(schema, record, f) IN
              [threw |-> FALSE, message |-> "",
               criteria |-> IF IsEmpty(v) THEN NoCriteria ELSE Equality(f, v),
               record |-> CastRecord(schema, record, {f})]
    ELSE IF \E i \in 1..Len(identityFields) : ~HasAttribute(schema, identityFields[i])
    THEN LET first == CHOOSE i \in 1..Len(identityFields) :
                        /\ ~HasAttribute(schema, identityFields[i])
                        /\ \A j \in 1..i - 1 : HasAttribute(schema, identityFields[j])
         IN  [threw |-> TRUE, message |-> "model has no field",
              criteria |-> NoCriteria,
              record |-> CastRecord(schema, record,
                            {identityFields[j] : j \in 1..first - 1})]
    ELSE [threw |-> FALSE, message |-> "",
          criteria |-> Disjunction(OrClauses(schema, record, identityFields, 1)),
          record |-> CastRecord(schema, record,
                        {identityFields[i] : i \in 1..Len(identityFields)})]

\* _emptyCriteria(criteria): Object.keys(criteria).length === 0, where an
\* undefined argument takes the default {}
EmptyCriteria(criteria) == criteria.kind = "undefined"

\* _itemTriggersBatchDelay(options, itemCount):
\* (options.numberOfItemsBeforeDelay % itemCount) === 0, NaN when itemCount = 0
Abs(n) == IF n < 0 THEN 0 - n ELSE n

\* variant: the delay is triggered only when the count equals the number
ItemTriggersBatchDelay_Equal(options, itemCount) ==
    IF "numberOfItemsBeforeDelay" \notin DOMAIN options THEN FALSE
    ELSE options.numberOfItemsBeforeDelay = itemCount

ItemTriggersBatchDelay(options, itemCount) ==
    IF "numberOfItemsBeforeDelay" \notin DOMAIN options THEN FALSE
    ELSE IF options.numberOfItemsBeforeDelay = -1 THEN FALSE
    ELSE IF itemCount = 0 THEN FALSE
    ELSE Abs(options.numberOfItemsBeforeDelay) % itemCount = 0

\* variant: options.delayBetweenItems >= 0
HasItemDelay_NonNegative(options) ==
    IF "delayBetweenItems" \notin DOMAIN options THEN FALSE
    ELSE options.delayBetweenItems >= 0

\* options.delayBetweenItems > 0
HasItemDelay(options) ==
    IF "delayBetweenItems" \notin DOMAIN options THEN FALSE
    ELSE options.delayBetweenItems > 0

\* ----------------------------------------------------------------- options
\* extend({}, a, b)
Extend(a, b) ==
    [k \in (DOMAIN a) \cup (DOMAIN b) |-> IF k \in DOMAIN b THEN b[k] ELSE a[k]]

\* DEFAULTS.importOptions
ImportOptionDefaults ==
    [truncate |-> FALSE,
     identityFields |-> <<"id", "uuid">>,
     strict |-> TRUE,
     updateMethod |-> "updateOrCreate",
     getIdentityFields |-> "_getIdentityFields"]

\* DEFAULTS: what extend({}, DEFAULTS, config) gives a Manager constructed
\* without configuration
DEFAULTS ==
    [numberOfItemsBeforeDelay |-> -1,
     delayAfterItemBatch |-> 1000,
     delayBetweenItems |-> -1,
     importOptions |-> ImportOptionDefaults]

\* the per-call options a caller may pass
NoOptions == <<>>
TruncateChoices == {NoOptions, [truncate |-> TRUE]}
IdentityChoices == {NoOptions, [identityFields |-> <<"id">>]}
StrategyChoices == {NoOptions, [getIdentityFields |-> "custom"]}
MethodChoices == {[updateMethod |-> "findOrCreate"],
                  [updateMethod |-> "findOrCreate", truncate |-> TRUE]}
ThrottleChoices ==
    {[numberOfItemsBeforeDelay |-> 1, delayAfterItemBatch |-> 50],
     [delayBetweenItems |-> 10],
     [delayBetweenItems |-> 0],
     [delayBetweenItems |-> -1],
     [numberOfItemsBeforeDelay |-> 2, delayAfterItemBatch |-> 50, delayBetweenItems |-> 10]}

\* options.transform: a function, or the name of a plugin
TransformFunction(name) == [kind |-> "function", name |-> name]
TransformPlugin(name) == [kind |-> "string", name |-> name]
TransformChoices ==
    {[transform |-> TransformFunction("stamp")],
     [transform |-> TransformPlugin("dropLast")],
     [transform |-> TransformPlugin("missing")]}

CallOptions ==
    {Extend(Extend(a, b), c) :
        a \in TruncateChoices, b \in IdentityChoices, c \in StrategyChoices}
    \cup {Extend([identityFields |-> <<"id">>], t) : t \in ThrottleChoices}
    \cup {Extend([identityFields |-> <<"id">>], t) : t \in TransformChoices}
    \cup {Extend([identityFields |-> <<"id">>], t) : t \in MethodChoices}

\* what a custom getIdentityFields strategy may return for a record
CustomIdentityFields == {<<>>, <<"id">>}

\* what a defaultsTo producer function may return
ProducerReturns == {"'u'"}
Produced == {[f \in Fields |-> v] : v \in ProducerReturns}

\* ------------------------------------------------------------------ inputs
Identities == {"user", "device", "counter"}

\* the schema of the Model the model provider supplies for an identity
UserSchema ==
    << Attr("id", "integer", FALSE, NoDefault),
       Attr("uuid", "string", FALSE, Producer),
       Attr("name", "string", FALSE, Literal(EmptyStr)) >>

DeviceSchema ==
    << Attr("id", "string", TRUE, NoDefault),
       Attr("name", "string", TRUE, NoDefault) >>

\* a unique field whose declared default is the number 0
CounterSchema ==
    << Attr("id", "integer", FALSE, NoDefault),
       Attr("uuid", "integer", TRUE, Literal("0")) >>

SchemaOf(identity) ==
    CASE identity = "user" -> UserSchema
      [] identity = "device" -> DeviceSchema
      [] OTHER -> CounterSchema

RecA == [NoFields EXCEPT !["id"] = "1"]
RecB == NoFields

ItemValues == {Obj(RecA), Obj(RecB), JsNull}

RECURSIVE SeqsUpTo(_, _)
SeqsUpTo(S, n) ==
    IF n = 0 THEN {<<>>}
    ELSE LET shorter == SeqsUpTo(S, n - 1)
         IN  shorter \cup {Append(s, x) : s \in {t \in shorter : Len(t) = n - 1}, x \in S}

\* ------------------------------------------------------------------- state
VARIABLES
    importingEntities,  \* this._importingEntities: identity -> BOOLEAN
    errors,             \* this.errors: identity -> sequence of ImportError
    passes,             \* identity -> the _importModel invocation for it
    consumed,           \* what the last consumeErrorsFor call returned
    sinceDrain,         \* identity -> the error lists flushed since the last drain
    started,            \* number of _importModel invocations so far
    handed,             \* number of elements handed to _importModel so far
    schema,             \* hydration on its own: the schema,
    original,           \*   the record as it was given,
    hydrated,           \*   the record as _makeDefaultAttributes left it,
    hydrations,         \*   and the number of times it was applied
    baseFields,         \* criteria on their own: the identity fields given,
    resolvedFields,     \*   what getIdentityFields returned for them,
    buildResult,        \*   what buildCriteria did with the record,
    applied,            \*   and the functions applied so far
    parsers,            \* this._parsers: the format tags with a parser
    exporters,          \* this._exporters: the format tags with an exporter
    lastCall,           \* the last import, export or exportModels call
    config,             \* the configuration the Manager was constructed with
    sync                \* the invocation of the dataSync command

managerVars == <<importingEntities, errors, passes, consumed, sinceDrain, started, handed,
                 config, sync>>
hydrationVars == <<schema, original, hydrated, hydrations>>
criteriaVars == <<baseFields, resolvedFields, buildResult, applied>>
codecVars == <<parsers, exporters, lastCall>>
helperVars == <<schema, original, hydrated, hydrations,
                baseFields, resolvedFields, buildResult, applied,
                parsers, exporters, lastCall, config, sync>>
vars == <<importingEntities, errors, passes, consumed, sinceDrain, started, handed,
          schema, original, hydrated, hydrations,
          baseFields, resolvedFields, buildResult, applied,
          parsers, exporters, lastCall, config, sync>>

\* the positions of an invocation
Settled == {"resolved", "rejected"}
Suspended == {"batchDelay", "itemDelay", "store"}

IdlePass ==
    [pc |-> "idle",
     options |-> ImportOptionDefaults,
     via |-> "",            \* the entry point that started the invocation
     type |-> "",           \* the format tag given to importAsModels
     events |-> <<>>,       \* the events import has emitted
     parsed |-> <<>>,       \* what the parser returned, for the import entry points
     Model |-> <<>>,
     records |-> <<>>,      \* the array iterate pops from
     output |-> <<>>,
     errors |-> <<>>,       \* the local error list of iterate
     stamps |-> <<>>,       \* Date.now() at the construction of each of them
     now |-> 0,             \* the clock, in milliseconds since the first error
     handlers |-> <<>>,     \* the catch handlers that have not run yet
     current |-> <<>>,      \* record, criteria, updateStrategy, o of this iteration
     rejection |-> "",
     given |-> <<>>,        \* the items as the caller gave them
     items |-> <<>>,        \* the sequence handed to iterate
     destroys |-> 0,        \* the Model.destroy calls issued,
     destroyed |-> "",      \*   and the outcome of the last one
     calls |-> <<>>,        \* the store operations issued, with their outcome
     thrown |-> 0]          \* exceptions thrown while preparing a record

\* currentlyBeingImported()
CurrentlyBeingImported == {p \in Identities : importingEntities[p]}

\* get importing()
Importing == \E p \in Identities : importingEntities[p] = TRUE

\* variant: the new errors replace the stored list
AddErrors_Overwrite(agg, identity, errs) == [agg EXCEPT ![identity] = errs]

\* addErrors(identity, errors)
AddErrors(agg, identity, errs) == [agg EXCEPT ![identity] = agg[identity] \o errs]

\* variant: the drain empties the list of every identity
ConsumeErrorsFor_ClearAll(agg, identity) ==
    [returned |-> agg[identity], errors |-> [q \in DOMAIN agg |-> <<>>]]

\* consumeErrorsFor(identity): the list returned and the aggregator left
ConsumeErrorsFor(agg, identity) ==
    [returned |-> agg[identity], errors |-> [agg EXCEPT ![identity] = <<>>]]

\* wrapError(record, identity, updateStrategy, criteria, src)
WrapError(record, identity, updateStrategy, criteria, src) ==
    [identity |-> identity, updateStrategy |-> updateStrategy,
     criteria |-> criteria, record |-> record, source |-> src]

Front(s) == SubSeq(s, 1, Len(s) - 1)
Last(s) == s[Len(s)]

\* variant: records.shift(), the array is consumed from its head
Pop_Shift(records) == [record |-> Head(records), records |-> Tail(records)]

\* variant: the last element is read and the array is left as it was
Pop_Peek(records) == [record |-> records[Len(records)], records |-> records]

\* records.pop() on a non-empty array: the element taken and the array left
Pop(records) == [record |-> records[Len(records)], records |-> Front(records)]

\* variant: the record is the only argument, truncate or not
StoreCall_RecordOnly(ctx) ==
    [strategy |-> ctx.updateStrategy,
     arity |-> 1,
     criteria |-> ctx.criteria,
     record |-> ctx.record,
     index |-> ctx.index,
     identityFields |-> ctx.identityFields,
     empty |-> ctx.empty,
     batchDelays |-> ctx.batchDelays,
     itemDelays |-> ctx.itemDelays,
     outcome |-> "pending"]

\* the store operation issued for the record of ctx (args is [record] when
\* o.truncate, [criteria, record] otherwise), with its suspensions
StoreCall(ctx) ==
    [strategy |-> ctx.updateStrategy,
     arity |-> IF ctx.truncate THEN 1 ELSE 2,
     criteria |-> ctx.criteria,
     record |-> ctx.record,
     index |-> ctx.index,
     identityFields |-> ctx.identityFields,
     empty |-> ctx.empty,
     batchDelays |-> ctx.batchDelays,
     itemDelays |-> ctx.itemDelays,
     outcome |-> "pending"]

\* variant: iterate goes on to the next record without waiting for the
\* store operation it has just issued
Dispatch_Eager(ps) ==
    IF ps.records = <<>> \/ FalsyItem(ps.records[Len(ps.records)])
    THEN [ps EXCEPT !.pc = "store", !.calls = Append(@, StoreCall(ps.current))]
    ELSE [ps EXCEPT !.pc = "store",
                    !.records = SubSeq(@, 1, Len(@) - 1),
                    !.calls = @ \o <<StoreCall(ps.current),
                                     StoreCall([ps.current EXCEPT
                                        !.record = ps.records[Len(ps.records)].rec,
                                        !.index = Len(ps.records)])>>]

\* variant: `o` is the options object itself, not a copy, so what a record
\* changes in it stays changed for the records after it
Dispatch_SharedOptions(ps) ==
    [ps EXCEPT !.pc = "store", !.calls = Append(@, StoreCall(ps.current)),
               !.options.truncate = ps.current.truncate]

\* Model[updateStrategy].apply(Model, args)
Dispatch(ps) ==
    [ps EXCEPT !.pc = "store", !.calls = Append(@, StoreCall(ps.current))]

\* iterate, from the per-item delay on
AfterBatchDelay(ps) ==
    IF HasItemDelay(ps.options)
    THEN [ps EXCEPT !.pc = "itemDelay", !.current.itemDelays = @ + 1]
    ELSE Dispatch(ps)

\* iterate(records, options, output, errors) up to its first suspension:
\* "end" when the popped element is falsy, "thrown" when buildCriteria throws
Iterate(ps, produced, custom) ==
    IF ps.records = <<>> THEN [ps EXCEPT !.pc = "end"]
    ELSE IF FalsyItem(Pop(ps.records).record)
    THEN [ps EXCEPT !.pc = "end", !.records = Pop(ps.records).records]
    ELSE
    LET popped == Pop(ps.records)
        record == MakeDefaultAttributes(ps.Model, popped.record.rec, produced)
        identityFields ==
            IF ps.options.getIdentityFields = "_getIdentityFields"
            THEN GetIdentityFields(ps.Model, ps.options.identityFields)
            ELSE custom
        built == BuildCriteria(ps.Model, record, identityFields)
        method == IF ps.options.truncate THEN "create" ELSE ps.options.updateMethod
        degrade == EmptyCriteria(built.criteria) /\ ps.options.truncate
        next == [ps EXCEPT
                    !.records = popped.records,
                    !.current = [record |-> built.record,
                                 index |-> Len(ps.records),
                                 criteria |-> built.criteria,
                                 updateStrategy |-> IF degrade THEN "create" ELSE method,
                                 truncate |-> IF degrade THEN FALSE ELSE ps.options.truncate,
                                 identityFields |-> identityFields,
                                 empty |-> EmptyCriteria(built.criteria),
                                 batchDelays |-> 0,
                                 itemDelays |-> 0]]
    IN  IF built.threw
        THEN [ps EXCEPT !.pc = "thrown", !.records = popped.records,
                        !.rejection = built.message, !.thrown = @ + 1]
        ELSE IF ItemTriggersBatchDelay(ps.options, Len(ps.output))
        THEN [next EXCEPT !.pc = "batchDelay", !.current.batchDelays = @ + 1]
        ELSE AfterBatchDelay(next)

\* variant: one flag for the whole manager, the end of a sequence clears
\* the mark of every identity
Advance_SingleFlag(p, ps) ==
    IF ps.pc = "end"
    THEN /\ errors' = IF ps.errors # <<>> THEN AddErrors(errors, p, ps.errors) ELSE errors
         /\ importingEntities' = [q \in Identities |-> FALSE]
         /\ passes' = [passes EXCEPT ![p] = [ps EXCEPT !.pc = "resolved"]]
         /\ sinceDrain' = [sinceDrain EXCEPT ![p] = Append(@, ps.errors)]
    ELSE /\ passes' = [passes EXCEPT ![p] = ps]
         /\ UNCHANGED <<errors, importingEntities, sinceDrain>>

\* the effect of one run of iterate on the manager: at the end of the
\* sequence the local errors are added, the mark is cleared, the pass resolves
Advance(p, ps) ==
    IF ps.pc = "end"
    THEN /\ errors' = IF ps.errors # <<>> THEN AddErrors(errors, p, ps.errors) ELSE errors
         /\ importingEntities' = [importingEntities EXCEPT ![p] = FALSE]
         /\ passes' = [passes EXCEPT ![p] = [ps EXCEPT !.pc = "resolved"]]
         /\ sinceDrain' = [sinceDrain EXCEPT ![p] = Append(@, ps.errors)]
    ELSE /\ passes' = [passes EXCEPT ![p] = ps]
         /\ UNCHANGED <<errors, importingEntities, sinceDrain>>

\* the dataSync command has not been invoked
NoSync ==
    [pc |-> "idle",
     event |-> <<>>,
     commands |-> {},       \* the commands context.hasCommand answers true for
     drains |-> 0,          \* the consumeErrorsFor calls of the command
     drained |-> <<>>,      \*   and what the last one returned
     selected |-> "",       \* completionCommand
     archive |-> "",        \* where moveSourceFiles moves the file, if it does
     emitted |-> <<>>]      \* the context.emit calls

\* the Manager after init(): no parser running, no mark, no error
Initialized ==
    /\ sync = NoSync
    /\ importingEntities = [p \in Identities |-> FALSE]
    /\ errors = [p \in Identities |-> <<>>]
    /\ passes = [p \in Identities |-> IdlePass]
    /\ consumed = [identity |-> "", errors |-> <<>>]
    /\ sinceDrain = [p \in Identities |-> <<>>]
    /\ started = 0
    /\ handed = 0

\* a Manager constructed without configuration
ManagerInit ==
    /\ config = DEFAULTS
    /\ Initialized

\* no helper function has been applied on its own
NotBuilt == [threw |-> FALSE, message |-> "", criteria |-> NoCriteria, record |-> NoFields]

CriteriaIdle ==
    /\ baseFields = <<>>
    /\ resolvedFields = <<>>
    /\ buildResult = NotBuilt
    /\ applied = {}

\* the parsers and exporters init() registers (csv, tsv, json)
InitialParsers == {"csv", "tsv", "json"}
InitialExporters == {"csv", "json"}

NoCall ==
    [op |-> "", type |-> "", query |-> <<>>, outcome |-> "", error |-> "",
     events |-> <<>>, storeOps |-> <<>>, result |-> <<>>]

CodecInit ==
    /\ parsers = InitialParsers
    /\ exporters = InitialExporters
    /\ lastCall = NoCall

Init ==
    /\ ManagerInit
    /\ CodecInit
    /\ schema = <<>>
    /\ original = NoFields
    /\ hydrated = NoFields
    /\ hydrations = 0
    /\ CriteriaIdle

\* the plugins this.pluginProvider loads; for any other name it throws
LoadablePlugins == {"dropLast"}

\* the transform functions of these runs: one sets the name of every record,
\* the other returns the sequence without its last element
Stamp(items) ==
    [i \in 1..Len(items) |->
        IF items[i].tag = "object"
        THEN Obj([items[i].rec EXCEPT !["name"] = "'t'"]) ELSE items[i]]

DropLast(items) == IF items = <<>> THEN items ELSE Front(items)

\* options.transform(items, options)
CallTransform(name, items) == IF name = "stamp" THEN Stamp(items) ELSE DropLast(items)

\* variant: the items are returned as they are
ApplyTransform_Ignored(items, options) == items

\* _applyTransform(identity, items, options)
ApplyTransform(items, options) ==
    IF "transform" \notin DOMAIN options THEN items
    ELSE LET t == options.transform
             resolved == IF t.kind = "string" /\ t.name \in LoadablePlugins
                         THEN TransformFunction(t.name) ELSE t
         IN  IF resolved.kind = "function"
             THEN CallTransform(resolved.name, items) ELSE items

\* the events import emits for the results: one `record.<type>` per result,
\* then one `records.<type>` with all of them
RecordEvent(type, item) ==
    [name |-> "record", format |-> type, record |-> item, batch |-> <<>>]
BatchEvent(type, results) ==
    [name |-> "records", format |-> type, record |-> JsNull, batch |-> results]

\* variant: only the per-record events are emitted
ImportEvents_RecordsOnly(type, results) ==
    [i \in 1..Len(results) |-> RecordEvent(type, results[i])]

ImportEvents(type, results) ==
    [i \in 1..Len(results) |-> RecordEvent(type, results[i])]
        \o <<BatchEvent(type, results)>>

\* variant: the invocation does not mark the identity
BeginPass_Unmarked(p, items, callOptions, via, parsed) ==
    /\ LET options == Extend(config.importOptions, callOptions)
           given == ApplyTransform(items, options)
       IN  passes' = [passes EXCEPT ![p] =
                [IdlePass EXCEPT !.pc = "provider", !.options = options,
                                 !.records = given, !.items = given,
                                 !.given = items,
                                 !.type = passes[p].type,
                                 !.events = IF via # "_importModel"
                                            THEN ImportEvents(passes[p].type, items)
                                            ELSE <<>>,
                                 !.via = via, !.parsed = parsed]]
    /\ started' = started + 1
    /\ handed' = handed + Len(items)
    /\ UNCHANGED <<importingEntities, errors, consumed, sinceDrain>>

\* _importModel(identity, items, options) up to the modelProvider call
BeginPass(p, items, callOptions, via, parsed) ==
    /\ LET options == Extend(config.importOptions, callOptions)
           given == ApplyTransform(items, options)
       IN  passes' = [passes EXCEPT ![p] =
                [IdlePass EXCEPT !.pc = "provider", !.options = options,
                                 !.records = given, !.items = given,
                                 !.given = items,
                                 !.type = passes[p].type,
                                 !.events = IF via # "_importModel"
                                            THEN ImportEvents(passes[p].type, items)
                                            ELSE <<>>,
                                 !.via = via, !.parsed = parsed]]
    /\ importingEntities' = [importingEntities EXCEPT ![p] = TRUE]
    /\ started' = started + 1
    /\ handed' = handed + Len(items)
    /\ UNCHANGED <<errors, consumed, sinceDrain>>

\* no invocation is running for the identity
NotRunning(p) == passes[p].pc \in {"idle", "importFailed"} \cup Settled

\* a caller invokes _importModel(identity, items, options) with an array
ImportModel(p, items, callOptions) ==
    /\ NotRunning(p)
    /\ BeginPass(p, items, callOptions, "_importModel", <<>>)
    /\ UNCHANGED helperVars

\* importAsModels(identity, type, content, options) with a type that has
\* no parser: import throws
ImportAsModelsThrows(p, type) ==
    /\ NotRunning(p)
    /\ type \notin parsers
    /\ passes' = [passes EXCEPT ![p] =
            [IdlePass EXCEPT !.pc = "importFailed", !.via = "importAsModels",
                             !.type = type, !.rejection = "No matching parser found"]]
    /\ UNCHANGED <<importingEntities, errors, consumed, sinceDrain, started, handed>>
    /\ UNCHANGED helperVars

\* importAsModels(identity, type, content, options) up to the parser call
ImportAsModels(p, type, callOptions) ==
    /\ NotRunning(p)
    /\ type \in parsers
    /\ passes' = [passes EXCEPT ![p] =
            [IdlePass EXCEPT !.pc = "parse", !.via = "importAsModels",
                             !.type = type, !.options = callOptions]]
    /\ UNCHANGED <<importingEntities, errors, consumed, sinceDrain, started, handed>>
    /\ UNCHANGED helperVars

\* the parser rejects: import rejects and _importModel is never called
ParserRejects(p) ==
    /\ passes[p].pc = "parse"
    /\ passes' = [passes EXCEPT ![p].pc = "importFailed"]
    /\ UNCHANGED <<importingEntities, errors, consumed, sinceDrain, started, handed>>
    /\ UNCHANGED helperVars

\* results.reverse() of import
Reverse(s) == [i \in 1..Len(s) |-> s[Len(s) + 1 - i]]

\* variant: import resolves with the results as parsed
ImportResults_AsParsed(results) == results

\* the then-handler of import: the results import resolves with
ImportResults(results) == Reverse(results)

\* the parser resolves with an array: import reverses it and resolves, and
\* the then-handler of importAsModels calls _importModel
ParserResolves(p, results) ==
    /\ passes[p].pc = "parse"
    /\ BeginPass(p, ImportResults(results), passes[p].options, passes[p].via, results)
    /\ UNCHANGED helperVars

\* modelProvider(identity) rejects
ModelProviderRejects(p) ==
    /\ passes[p].pc = "provider"
    /\ passes' = [passes EXCEPT ![p].pc = "rejected", ![p].rejection = "model provider"]
    /\ UNCHANGED <<importingEntities, errors, consumed, sinceDrain, started, handed>>
    /\ UNCHANGED helperVars

\* modelProvider(identity) resolves without a Model
ModelNotFound(p) ==
    /\ passes[p].pc = "provider"
    /\ passes' = [passes EXCEPT ![p].pc = "rejected", ![p].rejection = "Model not found"]
    /\ UNCHANGED <<importingEntities, errors, consumed, sinceDrain, started, handed>>
    /\ UNCHANGED helperVars

\* variant: iterate starts without Model.destroy, truncate or not
ModelProvided_NoDestroy(p) ==
    /\ passes[p].pc = "provider"
    /\ \E produced \in Produced, custom \in CustomIdentityFields :
            Advance(p, Iterate([passes[p] EXCEPT !.Model = SchemaOf(p)],
                               produced, custom))
    /\ UNCHANGED <<consumed, started, handed>>
    /\ UNCHANGED helperVars

\* modelProvider(identity) resolves with the Model
ModelProvided(p) ==
    /\ passes[p].pc = "provider"
    /\ LET ps == [passes[p] EXCEPT !.Model = SchemaOf(p)]
       IN  IF ps.options.truncate
           THEN /\ passes' = [passes EXCEPT ![p] =
                        [ps EXCEPT !.pc = "destroy", !.destroys = @ + 1,
                                   !.destroyed = "pending"]]
                /\ UNCHANGED <<errors, importingEntities, sinceDrain>>
           ELSE \E produced \in Produced, custom \in CustomIdentityFields :
                    Advance(p, Iterate(ps, produced, custom))
    /\ UNCHANGED <<consumed, started, handed>>
    /\ UNCHANGED helperVars

\* Model.destroy({}) resolves
DestroyResolves(p) ==
    /\ passes[p].pc = "destroy"
    /\ \E produced \in Produced, custom \in CustomIdentityFields :
            Advance(p, Iterate([passes[p] EXCEPT !.destroyed = "resolved"],
                               produced, custom))
    /\ UNCHANGED <<consumed, started, handed>>
    /\ UNCHANGED helperVars

\* Model.destroy({}) rejects
DestroyRejects(p) ==
    /\ passes[p].pc = "destroy"
    /\ passes' = [passes EXCEPT ![p].pc = "rejected", ![p].rejection = "destroy",
                                ![p].destroyed = "rejected"]
    /\ UNCHANGED <<importingEntities, errors, consumed, sinceDrain, started, handed>>
    /\ UNCHANGED helperVars

\* await delay(options.delayAfterItemBatch) is over
BatchDelayElapsed(p) ==
    /\ passes[p].pc = "batchDelay"
    /\ passes' = [passes EXCEPT ![p] = AfterBatchDelay(passes[p])]
    /\ UNCHANGED <<importingEntities, errors, consumed, sinceDrain, started, handed>>
    /\ UNCHANGED helperVars

\* await delay(options.delayBetweenItems) is over
ItemDelayElapsed(p) ==
    /\ passes[p].pc = "itemDelay"
    /\ passes' = [passes EXCEPT ![p] = Dispatch(passes[p])]
    /\ UNCHANGED <<importingEntities, errors, consumed, sinceDrain, started, handed>>
    /\ UNCHANGED helperVars

SetOutcome(calls, outcome) == [calls EXCEPT ![Len(calls)].outcome = outcome]

\* the then-handler of the store call: the store returned the record
OnUpserted(ps) ==
    [ps EXCEPT !.output = Append(@, ps.current.record),
               !.handlers = Append(@, ps.current),
               !.calls = SetOutcome(@, "resolved")]

\* variant: the catch-handler records nothing
OnFailed_Lost(ps, p, ctx, src) == ps

\* the catch-handler of the store call, for the record in ctx
OnFailed(ps, p, ctx, src) ==
    [ps EXCEPT !.errors = Append(@,
                    WrapError(ctx.record, p, ctx.updateStrategy, ctx.criteria, src)),
               !.stamps = Append(@, ps.now)]

\* the milliseconds that may have gone by since the last error was built
ClockTicks == {0, 1}

\* the same, when the clock counts from the first error of the pass
TicksSince(ps) == IF ps.stamps = <<>> THEN {0} ELSE ClockTicks

\* the clock of the pass after some milliseconds
Later(ps, ms) == [ps EXCEPT !.now = @ + ms]

\* DataManagerError.id: `error_${identity}_${Date.now().toString(36)}`
ErrorId(identity, stamp) == <<"error", identity, stamp>>

\* the store operation of the current record succeeds
StoreResolves(p) ==
    /\ passes[p].pc = "store"
    /\ \E produced \in Produced, custom \in CustomIdentityFields :
            Advance(p, Iterate(OnUpserted(passes[p]), produced, custom))
    /\ UNCHANGED <<consumed, started, handed>>
    /\ UNCHANGED helperVars

\* variant: the failure of the store operation is not caught
StoreRejects_Uncaught(p) ==
    /\ passes[p].pc = "store"
    /\ passes' = [passes EXCEPT ![p].pc = "rejected", ![p].rejection = "store error",
                                ![p].calls = SetOutcome(@, "rejected")]
    /\ UNCHANGED <<importingEntities, errors, consumed, sinceDrain, started, handed>>
    /\ UNCHANGED helperVars

\* the store operation of the current record fails
StoreRejects(p) ==
    /\ passes[p].pc = "store"
    /\ \E ms \in TicksSince(passes[p]) :
        LET ps == Later([passes[p] EXCEPT !.calls = SetOutcome(@, "rejected")], ms)
        IN  \E produced \in Produced, custom \in CustomIdentityFields :
                Advance(p, Iterate(OnFailed(ps, p, ps.current, "store error"),
                                   produced, custom))
    /\ UNCHANGED <<consumed, started, handed>>
    /\ UNCHANGED helperVars

\* the rejection of an iterate call reaches the innermost catch-handler
\* that has not run, or the caller when there is none
RejectionPropagates(p) ==
    /\ passes[p].pc = "thrown"
    /\ IF passes[p].handlers = <<>>
       THEN /\ passes' = [passes EXCEPT ![p].pc = "rejected"]
            /\ UNCHANGED <<errors, importingEntities, sinceDrain>>
       ELSE \E ms \in TicksSince(passes[p]) :
            LET ps == Later([passes[p] EXCEPT !.handlers = Front(@)], ms)
                ctx == Last(passes[p].handlers)
            IN  \E produced \in Produced, custom \in CustomIdentityFields :
                    Advance(p, Iterate(OnFailed(ps, p, ctx, ps.rejection),
                                       produced, custom))
    /\ UNCHANGED <<consumed, started, handed>>
    /\ UNCHANGED helperVars

\* a caller drains the errors of an identity
Consume(p) ==
    /\ LET r == ConsumeErrorsFor(errors, p)
       IN  /\ consumed' = [identity |-> p, errors |-> r.returned]
           /\ errors' = r.errors
    /\ sinceDrain' = [sinceDrain EXCEPT ![p] = <<>>]
    /\ UNCHANGED <<importingEntities, passes, started, handed>>
    /\ UNCHANGED helperVars

\* a run with one invocation of _importModel, for any identity, sequence
\* and options, called directly or through importAsModels
ImportCallOptions == {NoOptions, [identityFields |-> <<"id">>]}

\* the format tags given to importAsModels: one with a parser, one without
ImportTypes == {"json", "xml"}

NoneYet == \A q \in Identities : passes[q].pc = "idle"

Next ==
    \/ /\ NoneYet
       /\ \E p \in Identities, items \in SeqsUpTo(ItemValues, MaxItems), o \in CallOptions :
            ImportModel(p, items, o)
    \/ /\ NoneYet
       /\ \E p \in Identities, type \in ImportTypes, o \in ImportCallOptions :
            ImportAsModels(p, type, o)
    \/ /\ NoneYet
       /\ \E p \in Identities, type \in ImportTypes : ImportAsModelsThrows(p, type)
    \/ \E p \in Identities : ParserRejects(p)
    \/ \E p \in Identities :
            /\ passes[p].pc = "parse"
            /\ \E results \in SeqsUpTo(ItemValues, MaxItems) : ParserResolves(p, results)
    \/ \E p \in Identities : ModelProviderRejects(p)
    \/ \E p \in Identities : ModelNotFound(p)
    \/ \E p \in Identities : ModelProvided(p)
    \/ \E p \in Identities : DestroyResolves(p)
    \/ \E p \in Identities : DestroyRejects(p)
    \/ \E p \in Identities : BatchDelayElapsed(p)
    \/ \E p \in Identities : ItemDelayElapsed(p)
    \/ \E p \in Identities : StoreResolves(p)
    \/ \E p \in Identities : StoreRejects(p)
    \/ \E p \in Identities : RejectionPropagates(p)
    \/ \E p \in Identities : Consume(p)

Spec == Init /\ [][Next]_vars

\* a run with several invocations, one after the other for one identity and
\* interleaved for different identities
PassOptions ==
    {NoOptions,
     [identityFields |-> <<"id">>, truncate |-> TRUE],
     [identityFields |-> <<"id">>, numberOfItemsBeforeDelay |-> 1,
      delayAfterItemBatch |-> 50, delayBetweenItems |-> 10]}

\* the identities whose passes are interleaved
PassIdentities == {"user", "device"}

NextPasses ==
    \/ /\ started < MaxPasses
       /\ \E p \in PassIdentities, items \in SeqsUpTo({Obj(RecA), Obj(RecB)}, MaxPassItems),
             o \in PassOptions :
            /\ handed + Len(items) <= MaxPassItems
            /\ ImportModel(p, items, o)
    \/ \E p \in Identities : ModelProviderRejects(p)
    \/ \E p \in Identities : ModelNotFound(p)
    \/ \E p \in Identities : ModelProvided(p)
    \/ \E p \in Identities : DestroyResolves(p)
    \/ \E p \in Identities : DestroyRejects(p)
    \/ \E p \in Identities : BatchDelayElapsed(p)
    \/ \E p \in Identities : ItemDelayElapsed(p)
    \/ \E p \in Identities : StoreResolves(p)
    \/ \E p \in Identities : StoreRejects(p)
    \/ \E p \in Identities : RejectionPropagates(p)
    \/ \E p \in PassIdentities : Consume(p)

SpecPasses == Init /\ [][NextPasses]_vars

\* the throttle scenario: one pass over ScenarioRecords records with a batch
\* delay after every two items, a model provider that supplies the Model
\* and a store whose operations all succeed
ScenarioRecords == 5

ScenarioOptions ==
    [identityFields |-> <<"id">>, numberOfItemsBeforeDelay |-> 2,
     delayAfterItemBatch |-> 50]

NextThrottle ==
    \/ /\ NoneYet
       /\ \E p \in Identities,
             items \in [1..ScenarioRecords -> {Obj(RecA), Obj(RecB)}] :
            ImportModel(p, items, ScenarioOptions)
    \/ \E p \in Identities : ModelProvided(p)
    \/ \E p \in Identities : BatchDelayElapsed(p)
    \/ \E p \in Identities : StoreResolves(p)

SpecThrottle == Init /\ [][NextThrottle]_vars

\* --------------------------------------------------- a configured Manager
\* one pass of a Manager constructed with a batch delay of its own, started
\* with per-call options that set no throttle or that set their own
MaxConfiguredItems == 3

\* new Manager({numberOfItemsBeforeDelay: X, delayAfterItemBatch: D})
ManagerConfigs ==
    {Extend(DEFAULTS, c) :
        c \in {[numberOfItemsBeforeDelay |-> 1, delayAfterItemBatch |-> 50],
               [numberOfItemsBeforeDelay |-> 2, delayAfterItemBatch |-> 50]}}

ConfiguredInit ==
    /\ config \in ManagerConfigs
    /\ Initialized
    /\ CodecInit
    /\ schema = <<>>
    /\ original = NoFields
    /\ hydrated = NoFields
    /\ hydrations = 0
    /\ CriteriaIdle

ConfiguredCallOptions ==
    {[identityFields |-> <<"id">>],
     [identityFields |-> <<"id">>, numberOfItemsBeforeDelay |-> 2,
      delayAfterItemBatch |-> 50]}

NextConfigured ==
    \/ /\ NoneYet
       /\ \E p \in Identities,
             items \in SeqsUpTo({Obj(RecA), Obj(RecB)}, MaxConfiguredItems),
             o \in ConfiguredCallOptions :
            ImportModel(p, items, o)
    \/ \E p \in Identities : ModelProvided(p)
    \/ \E p \in Identities : BatchDelayElapsed(p)
    \/ \E p \in Identities : StoreResolves(p)
    \/ \E p \in Identities : StoreRejects(p)

SpecConfigured == ConfiguredInit /\ [][NextConfigured]_vars

\* ------------------------------------------------------ a pass to its end
\* one pass over any sequence, null entries included, with a model provider,
\* a store and timers that answer in the end: whatever a pass waits for
\* (modelProvider, Model.destroy, a delay, the store operation, the
\* propagation of a rejection) eventually happens
MaxLiveItems == 2

\* what a pass is waiting for happens
Settle(p) ==
    \/ ModelProviderRejects(p)
    \/ ModelNotFound(p)
    \/ ModelProvided(p)
    \/ DestroyResolves(p)
    \/ DestroyRejects(p)
    \/ BatchDelayElapsed(p)
    \/ ItemDelayElapsed(p)
    \/ StoreResolves(p)
    \/ StoreRejects(p)
    \/ RejectionPropagates(p)

NextLive ==
    \/ /\ NoneYet
       /\ \E p \in Identities, items \in SeqsUpTo(ItemValues, MaxLiveItems),
             o \in PassOptions :
            ImportModel(p, items, o)
    \/ \E p \in Identities : Settle(p)

SpecLive == Init /\ [][NextLive]_vars /\ WF_vars(\E p \in Identities : Settle(p))

\* ------------------------------------------------- the dataSync command
\* one invocation of dataSync(event) on a Manager without errors, for events
\* with or without entity and filepath, of a file with or without a parser
MaxSyncItems == 2

\* what is left unchanged by the steps of the command
besideSync == <<schema, original, hydrated, hydrations,
                baseFields, resolvedFields, buildResult, applied,
                parsers, exporters, lastCall, config>>

Filepaths == {"users.json", "users.xml"}

\* extname(filename).replace('.', '')
Extname(filename) == IF filename = "users.json" THEN "json" ELSE "xml"

SyncEvents ==
    [entity : Identities \cup {Undef},
     filepath : Filepaths \cup {Undef},
     moveAfterDone : BOOLEAN]

CompletionCommands == {"data.sync.done", "data.sync.error"}

\* variant: the completion command does not depend on the errors
CompletionCommand_AlwaysDone(errs) == "data.sync.done"

\* completionCommand: 'data.sync.error' when errors.length, else 'data.sync.done'
CompletionCommand(errs) ==
    IF errs # <<>> THEN "data.sync.error" ELSE "data.sync.done"

\* moveSourceFiles(moveAfterDone, dest, filepath): the directory the file is
\* moved to
MoveSourceFiles(move, errs) ==
    IF ~move THEN "" ELSE IF errs # <<>> THEN "errorsPath" ELSE "historyPath"

\* dataSync(event), up to its return: an event without entity or filepath
\* is ignored, otherwise importFileAsModels(entity, filepath) is called and
\* importFile starts reading the file
DataSync(event, commands) ==
    /\ sync.pc = "idle"
    /\ IF Falsy(event.entity) \/ Falsy(event.filepath)
       THEN /\ sync' = [sync EXCEPT !.pc = "ignored", !.event = event,
                                    !.commands = commands]
            /\ UNCHANGED passes
       ELSE /\ NotRunning(event.entity)
            /\ sync' = [sync EXCEPT !.pc = "importing", !.event = event,
                                    !.commands = commands]
            /\ passes' = [passes EXCEPT ![event.entity] =
                    [IdlePass EXCEPT !.pc = "read", !.via = "importFileAsModels",
                                     !.type = Extname(event.filepath),
                                     !.options = NoOptions]]
    /\ UNCHANGED <<importingEntities, errors, consumed, sinceDrain, started, handed>>
    /\ UNCHANGED besideSync

\* fs.readFile fails: importFile rejects
ReadFileFails(p) ==
    /\ passes[p].pc = "read"
    /\ passes' = [passes EXCEPT ![p].pc = "importFailed", ![p].rejection = "readFile"]
    /\ UNCHANGED <<importingEntities, errors, consumed, sinceDrain, started, handed>>
    /\ UNCHANGED helperVars

\* fs.readFile gives the content: import is called with the extension as
\* type; when it throws (no parser) importFile rejects
ReadFileResolves(p) ==
    /\ passes[p].pc = "read"
    /\ passes' = IF passes[p].type \in parsers
                 THEN [passes EXCEPT ![p].pc = "parse"]
                 ELSE [passes EXCEPT ![p].pc = "importFailed",
                                     ![p].rejection = "No matching parser found"]
    /\ UNCHANGED <<importingEntities, errors, consumed, sinceDrain, started, handed>>
    /\ UNCHANGED helperVars

\* the then-handler of dataSync: importFileAsModels resolved with the records
SyncThen ==
    /\ sync.pc = "importing"
    /\ passes[sync.event.entity].pc = "resolved"
    /\ LET entity == sync.event.entity
           records == passes[entity].output
           r == ConsumeErrorsFor(errors, entity)
           completionCommand == CompletionCommand(r.returned)
       IN  /\ errors' = r.errors
           /\ consumed' = [identity |-> entity, errors |-> r.returned]
           /\ sinceDrain' = [sinceDrain EXCEPT ![entity] = <<>>]
           /\ sync' = [sync EXCEPT
                    !.pc = "done",
                    !.drains = @ + 1,
                    !.drained = r.returned,
                    !.selected = completionCommand,
                    !.archive = MoveSourceFiles(sync.event.moveAfterDone, r.returned),
                    !.emitted = IF completionCommand \in sync.commands
                                THEN Append(@, [command |-> completionCommand,
                                                errors |-> r.returned,
                                                records |-> records])
                                ELSE @]
    /\ UNCHANGED <<importingEntities, passes, started, handed>>
    /\ UNCHANGED besideSync

\* the catch-handler of dataSync: importFileAsModels rejected, the error is
\* logged
SyncCatch ==
    /\ sync.pc = "importing"
    /\ passes[sync.event.entity].pc \in {"rejected", "importFailed"}
    /\ sync' = [sync EXCEPT !.pc = "failed"]
    /\ UNCHANGED <<importingEntities, errors, passes, consumed, sinceDrain,
                   started, handed>>
    /\ UNCHANGED besideSync

NextSync ==
    \/ \E event \in SyncEvents, commands \in SUBSET CompletionCommands :
            DataSync(event, commands)
    \/ \E p \in Identities : ReadFileFails(p)
    \/ \E p \in Identities : ReadFileResolves(p)
    \/ \E p \in Identities : ParserRejects(p)
    \/ \E p \in Identities :
            /\ passes[p].pc = "parse"
            /\ \E results \in SeqsUpTo({Obj(RecA), Obj(RecB)}, MaxSyncItems) :
                    ParserResolves(p, results)
    \/ \E p \in Identities : ModelProviderRejects(p)
    \/ \E p \in Identities : ModelNotFound(p)
    \/ \E p \in Identities : ModelProvided(p)
    \/ \E p \in Identities : StoreResolves(p)
    \/ \E p \in Identities : StoreRejects(p)
    \/ \E p \in Identities : RejectionPropagates(p)
    \/ SyncThen
    \/ SyncCatch

SpecSync == Init /\ [][NextSync]_vars

\* ------------------------------------------------ hydration on its own
\* _makeDefaultAttributes applied, again and again, to one record of a
\* schema whose defaults are literals of every truth value or producers
DefaultChoices ==
    {NoDefault, Producer,
     Literal("0"), Literal("false"), Literal(EmptyStr), Literal("1"), Literal("'a'")}

HydrationSchemas ==
    {<< Attr("id", "integer", FALSE, NoDefault),
        Attr("uuid", "string", FALSE, d1),
        Attr("name", "string", FALSE, d2) >> : d1 \in DefaultChoices, d2 \in DefaultChoices}

HydrationRecords == [Fields -> {Undef, Null, "1"}]

HydrationProduced == [Fields -> {"'u'", "'v'"}]

HydrateInit ==
    /\ ManagerInit
    /\ schema \in HydrationSchemas
    /\ original \in HydrationRecords
    /\ hydrated = original
    /\ hydrations = 0
    /\ CriteriaIdle
    /\ CodecInit

\* record = _makeDefaultAttributes(Model, record)
Hydrate ==
    /\ hydrations < MaxHydrations
    /\ \E produced \in HydrationProduced :
            hydrated' = MakeDefaultAttributes(schema, hydrated, produced)
    /\ hydrations' = hydrations + 1
    /\ UNCHANGED <<schema, original>>
    /\ UNCHANGED managerVars
    /\ UNCHANGED criteriaVars
    /\ UNCHANGED codecVars

NextHydrate == Hydrate

SpecHydrate == HydrateInit /\ [][NextHydrate]_vars

\* --------------------------------- identity fields and criteria on their own
\* _getIdentityFields and buildCriteria applied to one record, for schemas
\* that declare any of the fields in any order, unique or not
MaxBaseFields == 2

Distinct(s) == \A i, j \in 1..Len(s) : i # j => s[i] # s[j]

TypeOf(f) == IF f = "id" THEN "integer" ELSE IF f = "uuid" THEN "string" ELSE "text"

CriteriaSchemas ==
    {[i \in 1..Len(o) |-> Attr(o[i], TypeOf(o[i]), o[i] \in u, NoDefault)] :
        o \in {s \in SeqsUpTo(Fields, Cardinality(Fields)) : Distinct(s)},
        u \in SUBSET Fields}

CriteriaRecords ==
    {r \in [Fields -> {Undef, Null, EmptyStr, "1"}] :
        r["id"] # EmptyStr /\ r["name"] # Null}

CriteriaInit ==
    /\ ManagerInit
    /\ schema \in CriteriaSchemas
    /\ original \in CriteriaRecords
    /\ hydrated = original
    /\ hydrations = 0
    /\ baseFields \in SeqsUpTo(Fields, MaxBaseFields)
    /\ resolvedFields = <<>>
    /\ buildResult = NotBuilt
    /\ applied = {}
    /\ CodecInit

\* identityFields = options.getIdentityFields(Model, record, identityFields)
ResolveIdentity ==
    /\ applied = {}
    /\ resolvedFields' = GetIdentityFields(schema, baseFields)
    /\ applied' = applied \cup {"getIdentityFields"}
    /\ UNCHANGED <<baseFields, buildResult>>
    /\ UNCHANGED hydrationVars
    /\ UNCHANGED managerVars
    /\ UNCHANGED codecVars

\* the identity fields buildCriteria is called with: the resolved ones as
\* in iterate, or the given ones when a caller calls buildCriteria itself
UsedFields == IF "getIdentityFields" \in applied THEN resolvedFields ELSE baseFields

\* criteria = buildCriteria(Model, record, identityFields)
Build ==
    /\ "buildCriteria" \notin applied
    /\ buildResult' = BuildCriteria(schema, original, UsedFields)
    /\ applied' = applied \cup {"buildCriteria"}
    /\ UNCHANGED <<baseFields, resolvedFields>>
    /\ UNCHANGED hydrationVars
    /\ UNCHANGED managerVars
    /\ UNCHANGED codecVars

NextCriteria == ResolveIdentity \/ Build

SpecCriteria == CriteriaInit /\ [][NextCriteria]_vars

\* ------------------------------------------ formats and export on their own
\* parser(), exporter(), import(), export() and exportModels() called in any
\* order with registered and unregistered format tags
FormatTags == {"csv", "json", "xml"}

\* what a parser may resolve with: an array, one object, undefined, a string
ParsedArray(items) == [kind |-> "array", items |-> items]
ParsedObject(item) == [kind |-> "object", items |-> <<item>>]
ParsedUndefined == [kind |-> "undefined", items |-> <<>>]
ParsedString == [kind |-> "string", items |-> <<>>]
MaxParsed == 2
ParseResults ==
    {ParsedArray(items) : items \in SeqsUpTo({Obj(RecA), Obj(RecB)}, MaxParsed)}
    \cup {ParsedObject(Obj(RecA)), ParsedUndefined, ParsedString}

\* parser(type, handler)
RegisterParser(type) ==
    /\ parsers' = parsers \cup {type}
    /\ UNCHANGED <<exporters, lastCall>>
    /\ UNCHANGED <<managerVars, hydrationVars, criteriaVars>>

\* exporter(type, handler)
RegisterExporter(type) ==
    /\ exporters' = exporters \cup {type}
    /\ UNCHANGED <<parsers, lastCall>>
    /\ UNCHANGED <<managerVars, hydrationVars, criteriaVars>>

\* variant: without a parser for the type, import resolves with no result
Import_Lenient(type, raw) ==
    /\ lastCall' =
            IF type \notin parsers
            THEN [NoCall EXCEPT !.op = "import", !.type = type, !.outcome = "resolved"]
            ELSE [NoCall EXCEPT !.op = "import", !.type = type, !.outcome = "resolved",
                                !.events = ImportEvents(type, ImportResults(raw.items)),
                                !.result = ImportResults(raw.items)]
    /\ UNCHANGED <<parsers, exporters>>
    /\ UNCHANGED <<managerVars, hydrationVars, criteriaVars>>

\* import(type, content, options) with a parser that resolves with raw
Import(type, raw) ==
    /\ lastCall' =
            IF type \notin parsers
            THEN [NoCall EXCEPT !.op = "import", !.type = type, !.outcome = "threw",
                                !.error = "No matching parser found"]
            ELSE IF raw.kind = "string"
            THEN [NoCall EXCEPT !.op = "import", !.type = type, !.outcome = "rejected",
                                !.error = "Ensure imported content has right format."]
            ELSE [NoCall EXCEPT !.op = "import", !.type = type, !.outcome = "resolved",
                                !.events = ImportEvents(type, ImportResults(raw.items)),
                                !.result = ImportResults(raw.items)]
    /\ UNCHANGED <<parsers, exporters>>
    /\ UNCHANGED <<managerVars, hydrationVars, criteriaVars>>

\* import(type, content, options) with a parser that rejects
ImportParserRejects(type) ==
    /\ type \in parsers
    /\ lastCall' = [NoCall EXCEPT !.op = "import", !.type = type,
                                  !.outcome = "rejected", !.error = "parser"]
    /\ UNCHANGED <<parsers, exporters>>
    /\ UNCHANGED <<managerVars, hydrationVars, criteriaVars>>

\* export(type, records, options): what the call settles with
ExportOutcome(type, records) ==
    IF type \notin exporters
    THEN [outcome |-> "rejected", error |-> "No matching exporter found", result |-> <<>>]
    ELSE [outcome |-> "resolved", error |-> "", result |-> records]

\* export(type, records, options)
Export(type, records) ==
    /\ lastCall' = [NoCall EXCEPT !.op = "export", !.type = type,
                                  !.outcome = ExportOutcome(type, records).outcome,
                                  !.error = ExportOutcome(type, records).error,
                                  !.result = ExportOutcome(type, records).result]
    /\ UNCHANGED <<parsers, exporters>>
    /\ UNCHANGED <<managerVars, hydrationVars, criteriaVars>>

\* the query of exportModels: any of populate, skip, limit, sort
PopulateChoices ==
    {NoOptions,
     [populate |-> [kind |-> "string", name |-> "owner"]],
     [populate |-> [kind |-> "array", name |-> "owner"]],
     [populate |-> [kind |-> "object", name |-> "owner"]],
     [populate |-> [kind |-> "object", name |-> ""]]}
SkipChoices == {NoOptions, [skip |-> 0], [skip |-> 2]}
LimitChoices == {NoOptions, [limit |-> 0], [limit |-> 5]}
SortChoices == {NoOptions, [sort |-> "name"]}
Queries ==
    {Extend(Extend(a, b), Extend(c, d)) :
        a \in PopulateChoices, b \in SkipChoices, c \in LimitChoices, d \in SortChoices}

\* an operation on the store query: its name and its argument
QueryOp(op, num, arg) == [op |-> op, num |-> num, arg |-> arg]

\* Model.find(...) and the operations exportModels chains on it
OrmCalls(query) ==
    <<QueryOp("find", 0, "{}")>>
    \o (IF "populate" \in DOMAIN query
           /\ (query.populate.kind \in {"string", "array"} \/ query.populate.name # "")
        THEN <<QueryOp("populate", 0, query.populate.name)>> ELSE <<>>)
    \o (IF "skip" \in DOMAIN query /\ query.skip # 0
        THEN <<QueryOp("skip", query.skip, "")>> ELSE <<>>)
    \o (IF "limit" \in DOMAIN query /\ query.limit # 0
        THEN <<QueryOp("skip", query.limit, "")>> ELSE <<>>)
    \o (IF "sort" \in DOMAIN query
        THEN <<QueryOp("sort", 0, query.sort)>> ELSE <<>>)

\* exportModels(identity, query, type, options) with a model provider that
\* supplies the Model and a store that returns models
ExportModels(query, type, models) ==
    /\ lastCall' = [NoCall EXCEPT !.op = "exportModels", !.type = type,
                                  !.query = query,
                                  !.storeOps = OrmCalls(query),
                                  !.outcome = ExportOutcome(type, models).outcome,
                                  !.error = ExportOutcome(type, models).error,
                                  !.result = ExportOutcome(type, models).result]
    /\ UNCHANGED <<parsers, exporters>>
    /\ UNCHANGED <<managerVars, hydrationVars, criteriaVars>>

\* exportModels with a model provider that rejects
ExportModelsNoModel(query, type) ==
    /\ lastCall' = [NoCall EXCEPT !.op = "exportModels", !.type = type,
                                  !.query = query, !.outcome = "rejected",
                                  !.error = "model provider"]
    /\ UNCHANGED <<parsers, exporters>>
    /\ UNCHANGED <<managerVars, hydrationVars, criteriaVars>>

StoredModels == {<<>>, <<Obj(RecA)>>}

NextCodec ==
    \/ \E type \in FormatTags : RegisterParser(type)
    \/ \E type \in FormatTags : RegisterExporter(type)
    \/ \E type \in FormatTags, raw \in ParseResults : Import(type, raw)
    \/ \E type \in FormatTags : ImportParserRejects(type)
    \/ \E type \in FormatTags, records \in StoredModels : Export(type, records)
    \/ \E type \in FormatTags, query \in Queries, models \in StoredModels :
            ExportModels(query, type, models)
    \/ \E type \in FormatTags, query \in Queries : ExportModelsNoModel(query, type)

SpecCodec == Init /\ [][NextCodec]_vars

\* ---------------------------------------------------------------- claims
\* every element of the sequence is a record (no null entry)
RecordsOnly(items) == \A i \in 1..Len(items) : items[i].tag = "object"

IsResolved(c) == c.outcome = "resolved"
IsRejected(c) == c.outcome = "rejected"

\* the records the successful store calls returned, in call order
ReturnedRecords(calls) ==
    LET ok == SelectSeq(calls, IsResolved) IN [i \in 1..Len(ok) |-> ok[i].record]

\* the ImportError of a failed store call
ErrorOfCall(p, c) ==
    [identity |-> p, updateStrategy |-> c.strategy, criteria |-> c.criteria,
     record |-> c.record, source |-> "store error"]

\* the ImportErrors of the failed store calls, in call order
FailedErrors(p, calls) ==
    LET ko == SelectSeq(calls, IsRejected) IN [i \in 1..Len(ko) |-> ErrorOfCall(p, ko[i])]

\* record d is what hydration and casting make of the given record r
\* (no schema of the model gives `id` a default)
From(d, r) ==
    /\ \A f \in Fields : r[f] # Undef => d[f] \in {r[f], ToStr(r[f])}
    /\ d["id"] = Undef <=> r["id"] = Undef

\* C1: a pass over records in which no preparation throws never rejects
\* because of a store failure; when it resolves every record had one store
\* call, the output is the records of the successful calls in processing
\* order, and the step adds to the aggregator, under the identity, exactly
\* the errors of the failed calls, each with the record of its own call.
C1_PerRecordIsolation ==
    [][\A p \in Identities :
        (RecordsOnly(passes'[p].items) /\ passes'[p].thrown = 0) =>
            /\ passes[p].pc \in Suspended => passes'[p].pc # "rejected"
            /\ (passes[p].pc # "resolved" /\ passes'[p].pc = "resolved") =>
                /\ Len(passes'[p].calls) = Len(passes'[p].items)
                /\ \A k \in 1..Len(passes'[p].calls) :
                        /\ passes'[p].calls[k].outcome # "pending"
                        /\ passes'[p].calls[k].index = Len(passes'[p].items) + 1 - k
                        /\ From(passes'[p].calls[k].record,
                                passes'[p].items[passes'[p].calls[k].index].rec)
                /\ passes'[p].output = ReturnedRecords(passes'[p].calls)
                /\ errors'[p] = errors[p] \o FailedErrors(p, passes'[p].calls)
                /\ \A q \in Identities \ {p} : errors'[q] = errors[q]]_vars

\* a resolved pass of three records with a failure between two successes
C1_Witness ==
    \E p \in Identities :
        /\ passes[p].pc = "resolved" /\ passes[p].thrown = 0
        /\ Len(passes[p].calls) = 3
        /\ passes[p].calls[1].outcome = "resolved"
        /\ passes[p].calls[2].outcome = "rejected"
        /\ passes[p].calls[3].outcome = "resolved"
        /\ Len(errors[p]) = 1

\* the model provider did not supply a Model
ProviderFailed(ps) == ps.Model = <<>>
\* options.truncate is set and Model.destroy failed
DestroyFailed(ps) == ps.options.truncate /\ ps.rejection = "destroy" /\ ps.calls = <<>>

\* C2 as stated: a pass rejects only when the model provider supplies no
\* model or when truncate is set and destroy fails.
C2_RejectsOnlyTwoCases ==
    \A p \in Identities :
        passes[p].pc = "rejected" => ProviderFailed(passes[p]) \/ DestroyFailed(passes[p])

\* C2 amended: a pass rejects only when the model provider supplies no
\* model, when truncate is set and destroy fails, or when the preparation
\* of a record threw (buildCriteria).
C2_RejectsOnlyThreeCases ==
    \A p \in Identities :
        passes[p].pc = "rejected" =>
            \/ ProviderFailed(passes[p])
            \/ DestroyFailed(passes[p])
            \/ passes[p].thrown > 0

\* a pass rejected by buildCriteria after one of its store calls failed
C2_Witness ==
    \E p \in Identities :
        /\ passes[p].pc = "rejected" /\ passes[p].thrown > 0
        /\ ~ProviderFailed(passes[p])
        /\ \E k \in 1..Len(passes[p].calls) : passes[p].calls[k].outcome = "rejected"

\* C3 as stated: once a pass has ended, and as long as nobody has drained,
\* consumeErrorsFor(identity) returns the error of every store failure
\* captured during the pass.
C3_ErrorsNeverLost ==
    \A p \in Identities :
        (passes[p].pc \in Settled /\ consumed.identity = "") =>
            \A k \in 1..Len(passes[p].calls) :
                passes[p].calls[k].outcome = "rejected" =>
                    \E i \in 1..Len(ConsumeErrorsFor(errors, p).returned) :
                        ConsumeErrorsFor(errors, p).returned[i]
                            = ErrorOfCall(p, passes[p].calls[k])

RECURSIVE Flatten(_)
Flatten(ss) == IF ss = <<>> THEN <<>> ELSE Head(ss) \o Flatten(Tail(ss))

\* C4: the stored list of an identity is the concatenation, in pass order,
\* of the error lists its passes flushed since the last drain; a drain
\* returns that whole list and leaves the stored list empty.
C4_AdditiveUntilDrained ==
    /\ [](\A p \in Identities : errors[p] = Flatten(sinceDrain[p]))
    /\ [][\A p \in Identities :
            (sinceDrain[p] # <<>> /\ sinceDrain'[p] = <<>>) =>
                /\ consumed' = [identity |-> p, errors |-> Flatten(sinceDrain[p])]
                /\ errors'[p] = <<>>]_vars

\* two passes of one identity have each flushed an error, not yet drained
C4_Witness ==
    \E p \in Identities :
        /\ Len(sinceDrain[p]) = 2
        /\ sinceDrain[p][1] # <<>> /\ sinceDrain[p][2] # <<>>
        /\ Len(errors[p]) = 2

\* C5 as stated: once an invocation has settled its identity is not listed
\* by currentlyBeingImported(), and importing is false when no pass runs.
C5_MarkClearedOnSettle ==
    \A p \in Identities :
        passes[p].pc \in Settled =>
            /\ p \notin CurrentlyBeingImported
            /\ (\A q \in Identities : NotRunning(q)) => ~Importing

\* C6: with one pass per identity, over records: the identity is marked at
\* every store dispatch and throttle suspension; the mark is false only
\* when the sequence is exhausted; the aggregator grows for the identity
\* only in the step that clears the mark, and that step adds exactly the
\* local error list of the pass.
C6_MarkSpansPass ==
    /\ [](\A p \in Identities :
            /\ passes[p].pc \in Suspended => importingEntities[p]
            /\ (/\ ~importingEntities[p]
                /\ passes[p].pc \notin {"idle", "parse", "importFailed"}
                /\ RecordsOnly(passes[p].items))
               => (passes[p].records = <<>> /\ passes[p].pc = "resolved"))
    /\ [][\A p \in Identities :
            /\ Len(errors'[p]) > Len(errors[p])
                    => (importingEntities[p] /\ ~importingEntities'[p])
            /\ (importingEntities[p] /\ ~importingEntities'[p])
                    => errors'[p] = errors[p] \o passes'[p].errors]_vars

\* a store call is pending while an error of the pass is held locally
C6_Witness ==
    \E p \in Identities :
        /\ passes[p].pc = "store" /\ importingEntities[p]
        /\ passes[p].errors # <<>> /\ errors[p] = <<>>

\* C7: _importModel dispatches from the tail of the sequence: the store
\* calls are in strictly decreasing position, each for the record at its
\* position, and when no preparation throws the k-th call is for the k-th
\* element from the end.
C7_ReverseOrder ==
    \A p \in Identities :
        \A k \in 1..Len(passes[p].calls) :
            LET c == passes[p].calls[k] IN
            /\ c.index \in 1..Len(passes[p].items)
            /\ From(c.record, passes[p].items[c.index].rec)
            /\ k > 1 => c.index < passes[p].calls[k - 1].index
            /\ passes[p].thrown = 0 => c.index = Len(passes[p].items) + 1 - k

\* three calls for a sequence whose ends differ, the second call failed
C7_Witness ==
    \E p \in Identities :
        /\ passes[p].via = "_importModel"
        /\ Len(passes[p].calls) = 3
        /\ passes[p].items[1] # passes[p].items[3]
        /\ passes[p].calls[2].outcome = "rejected"
        /\ passes[p].calls[1].index = 3

\* C8 as stated: through importAsModels the record parsed last is the
\* first one upserted.
C8_LastParsedFirst ==
    \A p \in Identities :
        passes[p].via = "importAsModels" =>
            \A k \in 1..Len(passes[p].calls) :
                From(passes[p].calls[k].record,
                     passes[p].parsed[Len(passes[p].parsed) + 1 - k].rec)

\* C8 amended: through importAsModels the records reach the store in the
\* order the parser produced them, the k-th call is for the k-th record.
C8_ParsedOrder ==
    \A p \in Identities :
        passes[p].via = "importAsModels" =>
            \A k \in 1..Len(passes[p].calls) :
                /\ k <= Len(passes[p].parsed)
                /\ From(passes[p].calls[k].record, passes[p].parsed[k].rec)

\* two parsed records that differ have both been upserted
C8_Witness ==
    \E p \in Identities :
        /\ passes[p].via = "importAsModels"
        /\ Len(passes[p].parsed) = 2
        /\ passes[p].parsed[1] # passes[p].parsed[2]
        /\ Len(passes[p].calls) = 2
        /\ passes[p].pc = "resolved"

\* C9 as stated: the record of every store call has a defined value for
\* every schema field that declares a defaultsTo.
C9_DefaultsPopulated ==
    \A p \in Identities :
        \A k \in 1..Len(passes[p].calls) :
            \A i \in 1..Len(passes[p].Model) :
                passes[p].Model[i].defaultsTo.kind # "none" =>
                    passes[p].calls[k].record[passes[p].Model[i].name] # Undef

\* the record has an explicit value for every field with a defaultsTo
ExplicitForAllDefaults(sch, r) ==
    \A i \in 1..Len(sch) : sch[i].defaultsTo.kind # "none" => r[sch[i].name] # Undef

\* C10: hydrating a record that has an explicit value (null included) for
\* every defaulted field, or a record that was hydrated before, returns
\* the record unchanged.
C10_NoOverwrite ==
    [][(hydrations' = hydrations + 1
        /\ (ExplicitForAllDefaults(schema, hydrated) \/ hydrations >= 1))
            => hydrated' = hydrated]_vars

\* a record whose first hydration filled a field was hydrated again
C10_Witness ==
    /\ hydrations = 2
    /\ hydrated # original
    /\ \E f \in Fields : original[f] = Null

\* the names of a field list, and the fields of the schema marked unique
NamesOf(s) == {s[i] : i \in 1..Len(s)}
UniqueFields(sch) == {sch[i].name : i \in {j \in 1..Len(sch) : sch[j].unique}}
PositionIn(sch, f) == CHOOSE i \in 1..Len(sch) : sch[i].name = f

\* the resolved list is the base list followed by the unique schema fields
\* the base list does not name, each once, in schema order
BaseThenUnique(sch, base, resolved) ==
    /\ Len(resolved) = Len(base) + Cardinality(UniqueFields(sch) \ NamesOf(base))
    /\ SubSeq(resolved, 1, Len(base)) = base
    /\ \A i \in Len(base) + 1..Len(resolved) :
            /\ resolved[i] \in UniqueFields(sch) \ NamesOf(base)
            /\ \A j \in i + 1..Len(resolved) :
                    PositionIn(sch, resolved[i]) < PositionIn(sch, resolved[j])

\* C11 as stated: for any schema and any base field list the resolved list
\* is the base list, then the unique schema fields not already present in
\* schema order, and no field name occurs twice in it.
C11_NoDuplicateFields ==
    "getIdentityFields" \in applied =>
        /\ BaseThenUnique(schema, baseFields, resolvedFields)
        /\ Distinct(resolvedFields)

\* C11 amended: for any schema and any base field list the resolved list
\* is the base list as given, then the unique schema fields not already
\* present, each once, in schema order; it has no duplicate field name
\* when the base list has none.
C11_BaseThenUniqueFields ==
    "getIdentityFields" \in applied =>
        /\ BaseThenUnique(schema, baseFields, resolvedFields)
        /\ Distinct(baseFields) => Distinct(resolvedFields)

\* a base list naming a unique field was extended by two other unique fields
C11_Witness ==
    /\ "getIdentityFields" \in applied
    /\ Len(baseFields) = 1
    /\ baseFields[1] \in UniqueFields(schema)
    /\ Len(resolvedFields) = 3

\* the identity fields whose value in the record is not empty, in order
RECURSIVE NonEmptyFields(_, _)
NonEmptyFields(fields, r) ==
    IF fields = <<>> THEN <<>>
    ELSE IF r[Head(fields)] \in {Undef, Null, EmptyStr}
         THEN NonEmptyFields(Tail(fields), r)
         ELSE <<Head(fields)>> \o NonEmptyFields(Tail(fields), r)

\* the clause is the equality of the field with its value in the record
ClauseFor(clause, f, r) == clause.field = f /\ clause.value \in {r[f], ToStr(r[f])}

\* C12 as stated: when exactly one identity field holds a non-empty value
\* buildCriteria returns the single equality for it, whatever the number
\* of identity fields; when two or more do it returns the disjunction of
\* their clauses in identity-field order.
C12_CriteriaCollapse ==
    ("buildCriteria" \in applied /\ ~buildResult.threw /\ Distinct(UsedFields)) =>
        LET held == NonEmptyFields(UsedFields, original) IN
        /\ Len(held) = 1 =>
                /\ buildResult.criteria.kind = "equality"
                /\ ClauseFor(buildResult.criteria.clauses[1], held[1], original)
        /\ Len(held) >= 2 =>
                /\ buildResult.criteria.kind = "or"
                /\ Len(buildResult.criteria.clauses) = Len(held)
                /\ \A i \in 1..Len(held) :
                        ClauseFor(buildResult.criteria.clauses[i], held[i], original)

\* C13: buildCriteria throws, and returns no criteria, when the identity
\* field list is empty or missing and when any identity field is not a
\* field of the schema, whatever the record holds for that field.
C13_FailsOnBadIdentityFields ==
    "buildCriteria" \in applied =>
        /\ (\/ Len(UsedFields) = 0
            \/ \E i \in 1..Len(UsedFields) :
                    UsedFields[i] \notin {schema[j].name : j \in 1..Len(schema)})
           => (buildResult.threw /\ buildResult.criteria = NoCriteria)
        /\ buildResult.threw => buildResult.criteria = NoCriteria

\* buildCriteria threw for a field absent from the schema that the record
\* has no value for, while the record has a value for another identity field
C13_Witness ==
    /\ "buildCriteria" \in applied
    /\ buildResult.threw
    /\ Len(UsedFields) = 2
    /\ UsedFields[1] \in {schema[j].name : j \in 1..Len(schema)}
    /\ original[UsedFields[1]] = "1"
    /\ UsedFields[2] \notin {schema[j].name : j \in 1..Len(schema)}
    /\ original[UsedFields[2]] = Undef

\* the invocation has reached _importModel and merged its options
Started(ps) == ps.pc \notin {"idle", "parse", "importFailed"}

\* C14 as stated: in a pass with options.truncate every store call is a
\* `create` whose only argument is the record, also for a record with no
\* usable identity-field value; the update method is never called.
C14_TruncateCreatesWithRecordOnly ==
    \A p \in Identities :
        (Started(passes[p]) /\ passes[p].options.truncate) =>
            \A k \in 1..Len(passes[p].calls) :
                /\ passes[p].calls[k].strategy = "create"
                /\ passes[p].calls[k].arity = 1

\* the option is set to a number
HasNumber(options, key) == key \in DOMAIN options

\* C15 as stated: with numberOfItemsBeforeDelay = N > 0 a record's upsert
\* is preceded by a batch suspension exactly when the number of records
\* processed before it in the pass, modulo N, is zero.
C15_BatchDelayEveryN ==
    \A p \in Identities :
        (/\ Started(passes[p])
         /\ HasNumber(passes[p].options, "numberOfItemsBeforeDelay")
         /\ passes[p].options.numberOfItemsBeforeDelay > 0
         /\ passes[p].thrown = 0) =>
            \A k \in 1..Len(passes[p].calls) :
                passes[p].calls[k].batchDelays =
                    IF (k - 1) % passes[p].options.numberOfItemsBeforeDelay = 0
                    THEN 1 ELSE 0

RECURSIVE BatchSuspensions(_)
BatchSuspensions(calls) ==
    IF calls = <<>> THEN 0 ELSE Head(calls).batchDelays + BatchSuspensions(Tail(calls))

\* C16: in the throttle scenario the pass resolves only after at least two
\* batch suspensions, and with every record upserted.
C16_ThrottleScenario ==
    \A p \in Identities :
        passes[p].pc = "resolved" =>
            /\ BatchSuspensions(passes[p].calls) >= 2
            /\ Len(passes[p].calls) = Len(passes[p].given)
            /\ \A k \in 1..Len(passes[p].calls) : passes[p].calls[k].outcome = "resolved"
            /\ Len(passes[p].output) = Len(passes[p].given)

\* the scenario's pass has resolved after a suspension
C16_Witness ==
    \E p \in Identities :
        /\ passes[p].pc = "resolved"
        /\ Len(passes[p].given) = ScenarioRecords
        /\ passes[p].options.numberOfItemsBeforeDelay = 2
        /\ BatchSuspensions(passes[p].calls) > 0

\* C17: a record's upsert is preceded by one per-item suspension when
\* delayBetweenItems is positive, whether or not a batch suspension came
\* first, and by none when it is zero, negative or absent; a pass with the
\* default options is never suspended for a delay.
C17_PerItemDelay ==
    \A p \in Identities :
        Started(passes[p]) =>
            /\ \A k \in 1..Len(passes[p].calls) :
                    passes[p].calls[k].itemDelays =
                        IF /\ HasNumber(passes[p].options, "delayBetweenItems")
                           /\ passes[p].options.delayBetweenItems > 0
                        THEN 1 ELSE 0
            /\ (/\ ~HasNumber(passes[p].options, "delayBetweenItems")
                /\ ~HasNumber(passes[p].options, "numberOfItemsBeforeDelay")) =>
                    /\ passes[p].pc \notin {"batchDelay", "itemDelay"}
                    /\ \A k \in 1..Len(passes[p].calls) :
                            passes[p].calls[k].batchDelays = 0

\* a record was upserted after a batch suspension and a per-item suspension
C17_Witness ==
    \E p \in Identities : \E k \in 1..Len(passes[p].calls) :
        /\ passes[p].calls[k].batchDelays = 1
        /\ passes[p].calls[k].itemDelays = 1
        /\ passes[p].calls[k].outcome = "resolved"

\* C18: with options.truncate, Model.destroy is issued once and has
\* resolved before any store call; when it fails the pass rejects and no
\* store call is made; without truncate, destroy is never called.
C18_TruncateOrdering ==
    \A p \in Identities :
        Started(passes[p]) =>
            /\ passes[p].destroys <= 1
            /\ (passes[p].options.truncate /\ passes[p].calls # <<>>) =>
                    (passes[p].destroys = 1 /\ passes[p].destroyed = "resolved")
            /\ (passes[p].options.truncate /\ passes[p].pc = "resolved") =>
                    passes[p].destroys = 1
            /\ passes[p].destroyed = "rejected" =>
                    (passes[p].pc = "rejected" /\ passes[p].calls = <<>>)
            /\ ~passes[p].options.truncate => passes[p].destroys = 0

\* a truncating pass has made two store calls after its destroy
C18_Witness ==
    \E p \in Identities :
        /\ Started(passes[p]) /\ passes[p].options.truncate
        /\ passes[p].destroys = 1
        /\ Len(passes[p].calls) = 2

\* options.transform is the function, or the name of the plugin
TransformIs(ps, kind, name) ==
    /\ "transform" \in DOMAIN ps.options
    /\ ps.options.transform = [kind |-> kind, name |-> name]

\* C19: with a transform function the pass iterates over what the function
\* made of the whole sequence (every record upserted carries the name the
\* function set; a plugin that drops the last element is applied once);
\* with a plugin that cannot be loaded the pass does not reject for it and
\* processes the records as given.
C19_BatchTransform ==
    \A p \in Identities :
        Started(passes[p]) =>
            /\ TransformIs(passes[p], "function", "stamp") =>
                    /\ Len(passes[p].items) = Len(passes[p].given)
                    /\ \A k \in 1..Len(passes[p].calls) :
                            /\ passes[p].calls[k].record["name"] = "'t'"
                            /\ From(passes[p].calls[k].record,
                                    passes[p].given[passes[p].calls[k].index].rec)
            /\ TransformIs(passes[p], "string", "dropLast") =>
                    /\ passes[p].given # <<>> =>
                            Len(passes[p].items) = Len(passes[p].given) - 1
                    /\ \A k \in 1..Len(passes[p].calls) :
                            passes[p].calls[k].index < Len(passes[p].given)
            /\ TransformIs(passes[p], "string", "missing") =>
                    /\ passes[p].items = passes[p].given
                    /\ passes[p].pc = "rejected" =>
                            (ProviderFailed(passes[p]) \/ passes[p].thrown > 0)
                    /\ \A k \in 1..Len(passes[p].calls) :
                            /\ passes[p].calls[k].record["name"]
                                    = passes[p].given[passes[p].calls[k].index].rec["name"]
                            /\ From(passes[p].calls[k].record,
                                    passes[p].given[passes[p].calls[k].index].rec)

\* a pass with a transform function has upserted two records
C19_Witness ==
    \E p \in Identities :
        /\ Started(passes[p])
        /\ TransformIs(passes[p], "function", "stamp")
        /\ Len(passes[p].calls) = 2
        /\ passes[p].pc = "resolved"

\* the store calls of the pass that have neither succeeded nor failed
Outstanding(ps) == {k \in 1..Len(ps.calls) : ps.calls[k].outcome = "pending"}

\* C20: a pass has at most one store operation outstanding, the one it
\* issued last and is waiting for; none is outstanding during a delay or
\* once the pass has settled.
C20_OneStoreCallOutstanding ==
    \A p \in Identities :
        /\ Cardinality(Outstanding(passes[p])) <= 1
        /\ Outstanding(passes[p]) \subseteq {Len(passes[p].calls)}
        /\ Outstanding(passes[p]) # {} <=> passes[p].pc = "store"

\* the third store call is outstanding after a batch suspension, the first
\* has failed and the second has succeeded
C20_Witness ==
    \E p \in Identities :
        /\ Outstanding(passes[p]) = {3}
        /\ passes[p].calls[3].batchDelays = 1
        /\ passes[p].calls[1].outcome = "rejected"
        /\ passes[p].calls[2].outcome = "resolved"

\* the invocation of the identity has started and has not settled
Running(ps) == Started(ps) /\ ps.pc \notin Settled

\* C21: with passes of different identities interleaved, a step of one
\* identity's pass changes neither the stored errors nor the mark of the
\* other; a pass resolves with the records of its own store calls and
\* adds, under its own identity, the errors of its own failed calls; every
\* running pass is marked, so `importing` is true until all have ended.
C21_CrossIdentityIsolation ==
    /\ [](\A p \in Identities :
            /\ Running(passes[p]) => (importingEntities[p] /\ Importing)
            /\ \A i \in 1..Len(errors[p]) : errors[p][i].identity = p
            /\ passes[p].pc = "resolved" =>
                    passes[p].output = ReturnedRecords(passes[p].calls))
    /\ [][\A p \in Identities :
            /\ passes'[p] = passes[p] =>
                    /\ importingEntities'[p] = importingEntities[p]
                    /\ Len(errors'[p]) <= Len(errors[p])
            /\ (passes[p].pc # "resolved" /\ passes'[p].pc = "resolved") =>
                    /\ errors'[p] = errors[p] \o FailedErrors(p, passes'[p].calls)
                    /\ \A q \in Identities \ {p} :
                            /\ errors'[q] = errors[q]
                            /\ importingEntities'[q] = importingEntities[q]]_vars

\* one identity's pass has ended with an error while the other identity's
\* pass waits for the store
C21_Witness ==
    \E p, q \in Identities :
        /\ p # q
        /\ passes[p].pc = "resolved" /\ Len(errors[p]) = 1 /\ ~importingEntities[p]
        /\ passes[q].pc = "store" /\ importingEntities[q]
        /\ errors[q] = <<>>

\* the place of an operation in the order populate, skip, limit, sort
OpRank(op) ==
    CASE op = "find" -> 0 [] op = "populate" -> 1 [] op = "skip" -> 2
      [] op = "limit" -> 3 [] OTHER -> 4

\* C22 as stated: exportModels applies to the store query populate, skip,
\* limit and sort, in this order and each only if the query has it; a
\* query with a limit has `limit` applied with that value, and `skip` is
\* only ever called with the skip offset.
C22_ExportQueryOperations ==
    (lastCall.op = "exportModels" /\ lastCall.storeOps # <<>>) =>
        LET ops == lastCall.storeOps
            q == lastCall.query
        IN  /\ \A i, j \in 1..Len(ops) : i < j => OpRank(ops[i].op) < OpRank(ops[j].op)
            /\ \A i \in 1..Len(ops) :
                    ops[i].op \in {"populate", "skip", "limit", "sort"} =>
                        ops[i].op \in DOMAIN q
            /\ ("limit" \in DOMAIN q /\ q.limit > 0) =>
                    \E i \in 1..Len(ops) : ops[i].op = "limit" /\ ops[i].num = q.limit
            /\ \A i \in 1..Len(ops) :
                    ops[i].op = "skip" => ("skip" \in DOMAIN q /\ ops[i].num = q.skip)

\* C23: import with a type that has no parser and export with a type that
\* has no exporter end in an error, with no event emitted and no store
\* operation; once the type is registered the call is not refused.
C23_UnregisteredFormatFails ==
    [][(lastCall' # lastCall /\ lastCall'.op \in {"import", "export"}) =>
        LET registry == IF lastCall'.op = "import" THEN parsers ELSE exporters IN
        /\ lastCall'.type \notin registry =>
                /\ lastCall'.outcome \in {"threw", "rejected"}
                /\ lastCall'.error \in {"No matching parser found",
                                         "No matching exporter found"}
                /\ lastCall'.events = <<>>
                /\ lastCall'.storeOps = <<>>
        /\ lastCall'.type \in registry =>
                lastCall'.error \notin {"No matching parser found",
                                        "No matching exporter found"}]_vars

\* a type that init() does not register has been registered and imported
C23_Witness ==
    /\ lastCall.op = "import"
    /\ lastCall.type \notin InitialParsers
    /\ lastCall.type \in parsers
    /\ lastCall.outcome = "resolved"
    /\ Len(lastCall.events) = 3

\* C24: for n parsed records import has emitted n `record.<type>` events,
\* one for each record, and then one `records.<type>` event with the whole
\* batch; in importAsModels nothing is emitted while the parser runs and
\* all the events are there before the first store operation.
C24_ImportEvents ==
    \A p \in Identities :
        passes[p].via = "importAsModels" =>
            LET ps == passes[p]
                n == Len(ps.parsed)
            IN  /\ ~Started(ps) => (ps.events = <<>> /\ ps.calls = <<>>)
                /\ (Started(ps) \/ ps.calls # <<>>) =>
                    /\ Len(ps.events) = n + 1
                    /\ \A i \in 1..n :
                            /\ ps.events[i].name = "record"
                            /\ ps.events[i].format = ps.type
                    /\ \A k \in 1..n :
                            Cardinality({i \in 1..n : ps.events[i].record = ps.parsed[k]})
                                = Cardinality({j \in 1..n : ps.parsed[j] = ps.parsed[k]})
                    /\ ps.events[n + 1].name = "records"
                    /\ ps.events[n + 1].format = ps.type
                    /\ Len(ps.events[n + 1].batch) = n
                    /\ \A k \in 1..n :
                            \E i \in 1..n : ps.events[n + 1].batch[i] = ps.parsed[k]

\* three records were parsed and the first store call is outstanding
C24_Witness ==
    \E p \in Identities :
        /\ passes[p].via = "importAsModels"
        /\ Len(passes[p].parsed) = 3
        /\ passes[p].parsed[1] # passes[p].parsed[3]
        /\ Len(passes[p].calls) = 1
        /\ Len(passes[p].events) = 4

\* C25 as stated: every ImportError of a pass carries the identity and, for
\* a store failure, the strategy, criteria and record of the failed call
\* and the source error; any two ImportErrors have different ids.
C25_ErrorFieldsAndUniqueId ==
    \A p \in Identities :
        /\ \A i \in 1..Len(passes[p].errors) :
                /\ passes[p].errors[i].identity = p
                /\ passes[p].errors[i].source = "store error" =>
                        \E k \in 1..Len(passes[p].calls) :
                            /\ passes[p].calls[k].outcome = "rejected"
                            /\ passes[p].errors[i] = ErrorOfCall(p, passes[p].calls[k])
        /\ \A i, j \in 1..Len(passes[p].stamps) :
                i # j => ErrorId(p, passes[p].stamps[i]) # ErrorId(p, passes[p].stamps[j])

\* no identity field of the call's record has a usable value
NoUsableIdentity(c) ==
    \A i \in 1..Len(c.identityFields) :
        c.record[c.identityFields[i]] \in {Undef, Null, EmptyStr}

\* C26 as stated: whenever no identity field of a record has a usable
\* value, for any number of identity fields, the engine treats the
\* criteria of that record as empty.
C26_EmptyCriteriaDetected ==
    \A p \in Identities :
        \A k \in 1..Len(passes[p].calls) :
            NoUsableIdentity(passes[p].calls[k]) => passes[p].calls[k].empty

\* C27: in a pass without truncate every store call is a call of
\* options.updateMethod, never of `create`, with the two arguments
\* (criteria, record), the criteria being those built for the record, also
\* when they are empty.
C27_NonTruncateDispatch ==
    \A p \in Identities :
        (Started(passes[p]) /\ ~passes[p].options.truncate) =>
            \A k \in 1..Len(passes[p].calls) :
                LET c == passes[p].calls[k] IN
                /\ c.strategy = passes[p].options.updateMethod
                /\ c.strategy # "create"
                /\ c.arity = 2
                /\ c.empty => c.criteria = NoCriteria
                /\ \A i \in 1..Len(c.criteria.clauses) :
                        c.criteria.clauses[i].value = c.record[c.criteria.clauses[i].field]

\* a pass without truncate and with its own update method has upserted a
\* record with empty criteria and a record with criteria
C27_Witness ==
    \E p \in Identities :
        /\ Started(passes[p]) /\ ~passes[p].options.truncate
        /\ passes[p].options.updateMethod = "findOrCreate"
        /\ Len(passes[p].calls) = 2
        /\ passes[p].calls[1].empty /\ passes[p].calls[1].outcome = "resolved"
        /\ ~passes[p].calls[2].empty

\* C28: the options of a pass never change once it has started, and in a
\* truncating pass every record with criteria is sent to `create` with the
\* record alone, whatever records before it were degraded.
C28_DegradationPerRecord ==
    /\ [](\A p \in Identities :
            (Started(passes[p]) /\ passes[p].options.truncate) =>
                \A k \in 1..Len(passes[p].calls) :
                    ~passes[p].calls[k].empty =>
                        /\ passes[p].calls[k].strategy = "create"
                        /\ passes[p].calls[k].arity = 1)
    /\ [][\A p \in Identities :
            (Started(passes[p]) /\ Started(passes'[p])) =>
                passes'[p].options = passes[p].options]_vars

\* in a truncating pass a record with criteria was sent to the store
\* between two degraded records
C28_Witness ==
    \E p \in Identities :
        /\ Started(passes[p]) /\ passes[p].options.truncate
        /\ Len(passes[p].calls) = 3
        /\ passes[p].calls[1].empty /\ passes[p].calls[1].arity = 2
        /\ ~passes[p].calls[2].empty /\ passes[p].calls[2].arity = 1
        /\ passes[p].calls[3].empty

\* the string representation of the values records hold
StringOf(v) == IF v = "1" THEN "'1'" ELSE v

\* the type the schema declares for the field
DeclaredType(sch, f) == sch[PositionIn(sch, f)].type

\* C29: after buildCriteria, an identity field of type text or string
\* whose value was neither null nor undefined holds the string of that
\* value in the record; every clause has the value the record now holds
\* for its field; null and undefined values, fields of other types and
\* fields that are no identity fields are as they were.
C29_CastWrittenBack ==
    ("buildCriteria" \in applied /\ ~buildResult.threw) =>
        /\ \A f \in Fields :
                IF /\ f \in NamesOf(UsedFields)
                   /\ DeclaredType(schema, f) \in {"text", "string"}
                   /\ original[f] \notin {Null, Undef}
                THEN buildResult.record[f] = StringOf(original[f])
                ELSE buildResult.record[f] = original[f]
        /\ \A i \in 1..Len(buildResult.criteria.clauses) :
                buildResult.criteria.clauses[i].value
                    = buildResult.record[buildResult.criteria.clauses[i].field]

\* a number was cast for a string field, next to an integer field left alone
C29_Witness ==
    /\ "buildCriteria" \in applied /\ ~buildResult.threw
    /\ UsedFields = <<"id", "uuid">>
    /\ original["id"] = "1" /\ original["uuid"] = "1"
    /\ buildResult.record["uuid"] = "'1'"
    /\ Len(buildResult.criteria.clauses) = 2

\* C30: every clause of the criteria buildCriteria returns is for a field
\* of the schema that is one of the identity fields, and its value is
\* neither undefined nor null nor the empty string.
C30_CriteriaWellFormed ==
    ("buildCriteria" \in applied /\ ~buildResult.threw) =>
        \A i \in 1..Len(buildResult.criteria.clauses) :
            LET clause == buildResult.criteria.clauses[i] IN
            /\ clause.field \in {schema[j].name : j \in 1..Len(schema)}
            /\ clause.field \in NamesOf(UsedFields)
            /\ clause.value \notin {Undef, Null, EmptyStr}

\* criteria with one clause were built from three identity fields, one of
\* them null and one the empty string
C30_Witness ==
    /\ "buildCriteria" \in applied /\ ~buildResult.threw
    /\ Len(UsedFields) = 3
    /\ \E f \in NamesOf(UsedFields) : original[f] = Null
    /\ \E f \in NamesOf(UsedFields) : original[f] = EmptyStr
    /\ Len(buildResult.criteria.clauses) = 1

\* the value a schema declares as the default of a field (for a producer,
\* what it returns); "undefined" when it declares none
DeclaredDefault(sch, f) ==
    IF ~HasAttribute(sch, f) THEN Undef
    ELSE LET d == AttributeOf(sch, f).defaultsTo
         IN  IF d.kind = "function" THEN CHOOSE v \in ProducerReturns : TRUE
             ELSE d.value

\* C31 as stated: for every store call, an identity field that the incoming
\* record does not have and for which the schema declares a (non-empty)
\* default has been populated before the criteria were built: the record
\* of the call has the field and the criteria have a clause for it with
\* the default value.
C31_HydrationPrecedesCriteria ==
    \A p \in Identities :
        \A k \in 1..Len(passes[p].calls) :
            LET c == passes[p].calls[k]
                given == passes[p].items[c.index].rec
            IN  \A i \in 1..Len(c.identityFields) :
                    LET f == c.identityFields[i]
                        d == DeclaredDefault(passes[p].Model, f)
                    IN  (given[f] = Undef /\ ~IsEmpty(d)) =>
                            /\ c.record[f] # Undef
                            /\ \E j \in 1..Len(c.criteria.clauses) :
                                    /\ c.criteria.clauses[j].field = f
                                    /\ c.criteria.clauses[j].value \in {d, ToStr(d)}

\* the number of items after which a pass is to pause: the per-call setting
\* when there is one, the Manager's otherwise
BatchSize(ps) ==
    IF "numberOfItemsBeforeDelay" \in DOMAIN ps.options
    THEN ps.options.numberOfItemsBeforeDelay
    ELSE config.numberOfItemsBeforeDelay

\* the number of store calls before the k-th that succeeded
ImportedBefore(calls, k) == Len(SelectSeq(SubSeq(calls, 1, k - 1), IsResolved))

\* C32 as stated: in every pass of a Manager constructed with
\* numberOfItemsBeforeDelay = X, a store call issued right after the number
\* of imported items has reached a multiple of X was preceded by a cool-down.
C32_ManagerThrottleHonoured ==
    \A p \in Identities :
        \A k \in 2..Len(passes[p].calls) :
            (/\ BatchSize(passes[p]) > 0
             /\ passes[p].calls[k - 1].outcome = "resolved"
             /\ ImportedBefore(passes[p].calls, k) % BatchSize(passes[p]) = 0)
                => passes[p].calls[k].batchDelays = 1

\* C33: a pass, once started, eventually resolves or rejects, and on the way
\* no element of its sequence is taken twice: the store calls are for
\* different elements, and the calls issued, the preparations that threw
\* and the elements still to come never exceed the sequence.
C33_PassTerminates ==
    /\ [](\A p \in Identities :
            /\ \A j, k \in 1..Len(passes[p].calls) :
                    j # k => passes[p].calls[j].index # passes[p].calls[k].index
            /\ Len(passes[p].calls) + passes[p].thrown + Len(passes[p].records)
                    <= Len(passes[p].items))
    /\ (\E p \in Identities : passes[p].pc # "idle")
            ~> (\E p \in Identities : passes[p].pc \in Settled)

\* a pass of two records that awaited both delays and had a store failure
\* has resolved
C33_Witness ==
    \E p \in Identities :
        /\ passes[p].pc = "resolved"
        /\ Len(passes[p].calls) = 2
        /\ passes[p].calls[2].outcome = "rejected"
        /\ passes[p].calls[2].itemDelays = 1
        /\ passes[p].calls[2].batchDelays = 1

\* C34 as stated: a pass resolves only when its sequence is exhausted: in a
\* resolved pass in which no preparation threw, no element is left in the
\* array and every element of the sequence had its store call.
C34_EndsWhenExhausted ==
    \A p \in Identities :
        (passes[p].pc = "resolved" /\ passes[p].thrown = 0) =>
            /\ passes[p].records = <<>>
            /\ Len(passes[p].calls) = Len(passes[p].items)

\* C35: a step that drains (it changes what the last drain returned, or the
\* stored errors while no pass moves) is a drain of one identity: it returns
\* the list stored for that identity and leaves it empty, the lists of the
\* other identities, the marks and the passes are unchanged, and when no
\* error was flushed for the identity since its last drain (or ever) the
\* list returned is empty.
C35_DrainFrame ==
    [][(consumed' # consumed \/ (passes' = passes /\ errors' # errors)) =>
        LET p == consumed'.identity
        IN  /\ p \in Identities
            /\ consumed'.errors = errors[p]
            /\ errors'[p] = <<>>
            /\ \A q \in Identities \ {p} : errors'[q] = errors[q]
            /\ Flatten(sinceDrain[p]) = <<>> => consumed'.errors = <<>>
            /\ importingEntities' = importingEntities
            /\ passes' = passes]_vars

\* the errors of one identity have been drained while another identity's
\* errors are still stored
C35_Witness ==
    \E p, q \in Identities :
        /\ p # q
        /\ consumed.identity = p /\ consumed.errors # <<>>
        /\ errors[p] = <<>>
        /\ errors[q] # <<>>

\* the event has an entity and a filepath
Importable(event) == ~Falsy(event.entity) /\ ~Falsy(event.filepath)

\* C36: the dataSync command starts no import for an event without entity or
\* filepath; while the import is pending and when it rejects it drains
\* nothing and emits nothing; when importFileAsModels has resolved its
\* then-handler drains the entity's errors once, leaving none stored for
\* the entity, selects `data.sync.error` exactly when the drained list is
\* non-empty and `data.sync.done` otherwise, and emits the selected command,
\* with the drained errors and the records of the pass, exactly when that
\* command is registered.
C36_DataSync ==
    /\ []((sync.pc # "idle" /\ ~Importable(sync.event)) =>
            /\ sync.pc = "ignored"
            /\ started = 0
            /\ \A p \in Identities : passes[p].pc = "idle")
    /\ [](sync.pc \in {"idle", "ignored", "importing", "failed"} =>
            /\ sync.drains = 0
            /\ sync.emitted = <<>>
            /\ consumed.identity = "")
    /\ [](sync.pc = "failed" =>
            passes[sync.event.entity].pc \in {"rejected", "importFailed"})
    /\ [][(sync.pc # "done" /\ sync'.pc = "done") =>
            LET entity == sync.event.entity
                drained == errors[entity]
                selected == IF drained # <<>> THEN "data.sync.error"
                            ELSE "data.sync.done"
            IN  /\ sync.pc = "importing"
                /\ passes[entity].pc = "resolved"
                /\ sync'.drains = 1
                /\ sync'.drained = drained
                /\ errors'[entity] = <<>>
                /\ \A q \in Identities \ {entity} : errors'[q] = errors[q]
                /\ sync'.selected = selected
                /\ sync'.emitted =
                        IF selected \in sync.commands
                        THEN <<[command |-> selected, errors |-> drained,
                                records |-> passes[entity].output]>>
                        ELSE <<>>]_vars
    /\ [][sync.pc = "done" =>
            /\ sync' = sync
            /\ errors'[sync.event.entity] = <<>>]_vars

\* the command has emitted `data.sync.error` with one error and one record
C36_Witness ==
    /\ sync.pc = "done"
    /\ sync.selected = "data.sync.error"
    /\ Len(sync.emitted) = 1
    /\ Len(sync.emitted[1].errors) = 1
    /\ Len(sync.emitted[1].records) = 1
    /\ errors[sync.event.entity] = <<>>

====
